---- MODULE Spec2Model ----
(***************************************************************************)
(* A model of the rep-counting core of the physiotherapy engine:           *)
(* RepCounter (rep_counter.py) acting on ArmMetrics, CalibrationData and   *)
(* SessionHistory (models.py), and CalibrationManager (calibration.py)     *)
(* filling in CalibrationData.                                             *)
(* AngleCalculator (angle_calculator.py) and PoseProcessor                  *)
(* (pose_processor.py) turn landmarks into the angles RepCounter is given, *)
(* and the host (app.py) runs the frame loop and the stop handler around   *)
(* the session, each in a thread of its own.                               *)
(*                                                                         *)
(* Time is counted in ticks of 1/60 s, so that the frame period at 30 fps  *)
(* (2 ticks), state_hold_time = 0.15 s (9 ticks) and min_rep_duration =    *)
(* 0.6 s (36 ticks) are all whole numbers.  Angles are whole degrees, as   *)
(* PoseProcessor hands them to RepCounter.  Durations are exact: one that  *)
(* equals a threshold reaches it, where binary floating point may fall a   *)
(* rounding error short of it.                                             *)
(***************************************************************************)
EXTENDS Integers, Sequences, FiniteSets, TLC

VARIABLES
    calibration,          \* CalibrationData: the calibration state and the four thresholds
    calibration_log,      \* how many frames so far did not show both sides (counted
                          \*   where their number is bounded), and what the latest
                          \*   CalibrationManager.process_frame call was
                          \*   given and returned, and the prompts of the phase so far
    metrics,              \* side -> ArmMetrics
    angle_history,        \* side -> RepCounter.angle_history[side] (deque, maxlen 8)
    pending_state,        \* side -> RepCounter.pending_state[side]
    pending_state_start,  \* side -> RepCounter.pending_state_start[side]
    rep_start_time,       \* side -> RepCounter.rep_start_time[side]
    history,              \* SessionHistory: the two feedback counters
    now,                  \* the timestamp of the latest frame (ticks)
    last_call,            \* what the latest process_rep call was given and did
    credit_log,           \* side -> that side's credits, oldest first: the timestamp,
                          \*   whether the stage had been DOWN since the credit before,
                          \*   and the rep_time recorded
    down_since_credit,    \* side -> whether the stage was DOWN after a frame since the last credit
    angle_range,          \* side -> the lowest and highest angle the side was given so far
    stage_changes,        \* side -> how many calls changed the side's stage
    calls,                \* side -> number of process_rep calls so far
    scenario,             \* the literal input script being replayed ("none": free inputs)
    frame,                \* index of the next frame of the script
    call,                 \* the call of a function studied by itself: its arguments
                          \*   and what it returned
    buffers,              \* side -> AngleCalculator.buffers[side] (deque, maxlen 7)
    ema,                  \* side -> AngleCalculator.ema[side]
    config,               \* PoseProcessor.config: the two landmark index lists
    pose_log,             \* what the latest get_both_arm_angles call was given and did
    phase,                \* WorkoutSession.phase
    countdown_start,      \* when the session entered COUNTDOWN
    loop,                 \* generate_video_frames: where the frame loop stands
    stopper,              \* handle_stop_session: where the handler stands, the report it
                          \*   took, and the rep counts at the moment of stop()
    host                  \* what the host was sent: session_stopped, the session documents

repVars == <<metrics, angle_history, pending_state, pending_state_start,
             rep_start_time, history>>
obsVars == <<last_call, credit_log, down_since_credit, angle_range, stage_changes,
             calls>>
scenVars == <<scenario, frame>>
calVars == <<calibration, calibration_log>>
poseVars == <<buffers, ema, config, pose_log>>
sessVars == <<phase, countdown_start, loop, stopper, host>>
restVars == <<call, poseVars, sessVars>>
vars == <<calVars, repVars, now, obsVars, scenVars, restVars>>

----------------------------------------------------------------------------
(* Constants of the program *)

Sides == {"RIGHT", "LEFT"}

Other(arm) == IF arm = "RIGHT" THEN "LEFT" ELSE "RIGHT"

\* ArmStage
UP == "UP"
DOWN == "DOWN"
LOST == "LOST"
MOVING_UP == "MOVING_UP"
MOVING_DOWN == "MOVING_DOWN"
ArmStage == {UP, DOWN, LOST, MOVING_UP, MOVING_DOWN}

\* pending_state[arm] = None
None == "None"

\* two ticks per frame at 30 fps
TicksPerSecond == 2 * 30

\* RepCounter.__init__: min_rep_duration = 0.6 s
min_rep_duration == (6 * TicksPerSecond) \div 10

\* constants.MIN_REP_DURATION = 0.6 s
MIN_REP_DURATION == (6 * TicksPerSecond) \div 10

\* RepCounter.__init__: state_hold_time = 0.15 s
state_hold_time == (15 * TicksPerSecond) \div 100

\* RepCounter.__init__: hysteresis_margin = 5 degrees
hysteresis_margin == 5

\* deque(maxlen=8)
HistoryMaxLen == 8

\* process_rep: at least 4 angles are needed for a velocity
MinHistory == 4

\* process_rep: velocity_settled = velocity < 15
SettledVelocity == 15

\* process_rep: form feedback only if velocity < 20
FeedbackVelocity == 20

\* _provide_form_feedback: "Curl Higher" above contracted + 10, "Extend Fully" below extended - 10
RomGuidanceMargin == 10

\* CalibrationPhase
\* WorkoutPhase
INACTIVE == "INACTIVE"
CALIBRATION == "CALIBRATION"
COUNTDOWN == "COUNTDOWN"
ACTIVE == "ACTIVE"
WorkoutPhase == {INACTIVE, CALIBRATION, COUNTDOWN, ACTIVE}

\* WORKOUT_COUNTDOWN_TIME = 5 seconds
WORKOUT_COUNTDOWN_TIME == 5 * TicksPerSecond

EXTEND == "EXTEND"
CONTRACT == "CONTRACT"
COMPLETE == "COMPLETE"

\* CalibrationData defaults
DefaultCalibration ==
    [active |-> FALSE, phase |-> None, phase_start_time |-> 0,
     extended_angles |-> [s \in Sides |-> <<>>],
     contracted_angles |-> [s \in Sides |-> <<>>],
     message |-> "", progress |-> 0,
     contracted_threshold |-> 50, extended_threshold |-> 160,
     safe_angle_min |-> 30, safe_angle_max |-> 175]

\* ArmMetrics() built at time t: last_down_time and stage_start_time default to time.time()
NewArmMetrics(t) ==
    [rep_count |-> 0, stage |-> DOWN, angle |-> 0, accuracy |-> 100,
     rep_time |-> 0, min_rep_time |-> 0, curr_rep_time |-> 0,
     feedback |-> "", last_down_time |-> t, stage_start_time |-> t,
     feedback_color |-> "GRAY"]

\* SessionHistory(): the two feedback counters
NewSessionHistory == [right_feedback_count |-> 0, left_feedback_count |-> 0]

----------------------------------------------------------------------------
(* Pure helpers *)

Abs(x) == IF x < 0 THEN -x ELSE x

Min(a, b) == IF a <= b THEN a ELSE b

\* deque.append with maxlen: the oldest element falls out
DequeAppend(h, x) ==
    IF Len(h) < HistoryMaxLen THEN Append(h, x) ELSE Append(Tail(h), x)

\* three times the velocity abs(recent[-1] - recent[-4]) / 3 of process_rep
Velocity3(h) == Abs(h[Len(h)] - h[Len(h) - 3])

\* round(x, 2) of a duration of t ticks, in hundredths of a second
Round2(t) == (200 * t + TicksPerSecond) \div (2 * TicksPerSecond)

\* ArmMetrics.to_dict
to_dict(m) ==
    [rep_count |-> m.rep_count, stage |-> m.stage, angle |-> m.angle,
     accuracy |-> m.accuracy, rep_time |-> Round2(m.rep_time),
     min_rep_time |-> Round2(m.min_rep_time),
     curr_rep_time |-> Round2(m.curr_rep_time),
     feedback |-> m.feedback, feedback_color |-> m.feedback_color]

\* the margin is added where it is to be subtracted: UP up to contracted + margin
_determine_target_state_WideUp(angle, contracted, extended, current_stage) ==
    LET margin == hysteresis_margin
    IN  IF angle <= contracted + margin THEN UP
        ELSE IF angle >= extended + margin THEN DOWN
        ELSE IF current_stage = UP THEN
            (IF angle < contracted + margin THEN UP ELSE MOVING_DOWN)
        ELSE IF current_stage = DOWN THEN
            (IF angle > extended - margin THEN DOWN ELSE MOVING_UP)
        ELSE current_stage

\* the MOVING_UP branch ends like the MOVING_DOWN branch
_determine_target_state_CopyPaste(angle, contracted, extended, current_stage) ==
    LET margin == hysteresis_margin
    IN  IF angle <= contracted - margin THEN UP
        ELSE IF angle >= extended + margin THEN DOWN
        ELSE IF current_stage = UP THEN
            (IF angle < contracted + margin THEN UP ELSE MOVING_DOWN)
        ELSE IF current_stage = DOWN THEN
            (IF angle > extended - margin THEN DOWN ELSE MOVING_UP)
        ELSE MOVING_DOWN

\* RepCounter._determine_target_state
_determine_target_state(angle, contracted, extended, current_stage) ==
    LET margin == hysteresis_margin
    IN  IF angle <= contracted - margin THEN UP
        ELSE IF angle >= extended + margin THEN DOWN
        ELSE IF current_stage = UP THEN
            (IF angle < contracted + margin THEN UP ELSE MOVING_DOWN)
        ELSE IF current_stage = DOWN THEN
            (IF angle > extended - margin THEN DOWN ELSE MOVING_UP)
        ELSE IF current_stage = MOVING_UP THEN
            (IF angle <= contracted - margin THEN UP
             ELSE IF angle >= extended + margin THEN DOWN
             ELSE MOVING_UP)
        ELSE IF current_stage = MOVING_DOWN THEN
            (IF angle >= extended + margin THEN DOWN
             ELSE IF angle <= contracted - margin THEN UP
             ELSE MOVING_DOWN)
        ELSE current_stage

\* the duration test left out
RepDurationValid_Always(rep_time) == TRUE

\* the duration test of _handle_state_transition
RepDurationValid(rep_time) == rep_time >= min_rep_duration

\* the previous stage is not looked at
CreditsRep_AnyPrev(prev_stage, new_stage, m, current_time) ==
    /\ new_stage \in {MOVING_DOWN, DOWN}
    /\ current_time - m.last_down_time >= min_rep_duration

\* whether _handle_state_transition credits a rep
CreditsRep(prev_stage, new_stage, m, current_time) ==
    /\ prev_stage = UP
    /\ new_stage \in {MOVING_DOWN, DOWN}
    /\ RepDurationValid(current_time - m.last_down_time)

\* the rep is counted twice
TransitionMetrics_DoubleCount(prev_stage, new_stage, m, current_time) ==
    LET staged == [m EXCEPT !.stage = new_stage]
        rep_time == current_time - m.last_down_time
    IN  IF prev_stage = UP /\ new_stage \in {MOVING_DOWN, DOWN}
           /\ rep_time >= min_rep_duration
        THEN [staged EXCEPT
                !.rep_count = m.rep_count + 2,
                !.rep_time = rep_time,
                !.min_rep_time = IF m.min_rep_time = 0 THEN rep_time
                                 ELSE Min(rep_time, m.min_rep_time),
                !.last_down_time = current_time,
                !.curr_rep_time = 0]
        ELSE staged

\* min_rep_time takes the duration of the latest rep
TransitionMetrics_LatestAsMin(prev_stage, new_stage, m, current_time) ==
    LET staged == [m EXCEPT !.stage = new_stage]
        rep_time == current_time - m.last_down_time
    IN  IF CreditsRep(prev_stage, new_stage, m, current_time)
        THEN [staged EXCEPT
                !.rep_count = m.rep_count + 1,
                !.rep_time = rep_time,
                !.min_rep_time = rep_time,
                !.last_down_time = current_time,
                !.curr_rep_time = 0]
        ELSE staged

\* RepCounter._handle_state_transition: the metrics it leaves
TransitionMetrics(prev_stage, new_stage, m, current_time) ==
    LET staged == [m EXCEPT !.stage = new_stage]
        rep_time == current_time - m.last_down_time
    IN  IF CreditsRep(prev_stage, new_stage, m, current_time)
        THEN [staged EXCEPT
                !.rep_count = m.rep_count + 1,
                !.rep_time = rep_time,
                !.min_rep_time = IF m.min_rep_time = 0 THEN rep_time
                                 ELSE Min(rep_time, m.min_rep_time),
                !.last_down_time = current_time,
                !.curr_rep_time = 0]
        ELSE staged

\* RepCounter._handle_state_transition: the rep_start_time[arm] it leaves
TransitionRepStart(prev_stage, new_stage, rst, current_time) ==
    IF prev_stage = UP THEN rst
    ELSE IF new_stage = DOWN THEN current_time
    ELSE IF new_stage = UP THEN (IF rst = 0 THEN current_time ELSE rst)
    ELSE rst

\* RepCounter._provide_form_feedback: the text it sets ("": feedback left as it is)
FormFeedback(angle, stage, cal) ==
    IF angle < cal.safe_angle_min THEN "Over Curling"
    ELSE IF angle > cal.safe_angle_max THEN "Over Extending"
    ELSE IF cal.contracted_threshold < angle /\ angle < cal.extended_threshold THEN
        (IF stage \in {UP, MOVING_UP} THEN
            (IF angle > cal.contracted_threshold + RomGuidanceMargin
             THEN "Curl Higher" ELSE "")
         ELSE IF stage \in {DOWN, MOVING_DOWN} THEN
            (IF angle < cal.extended_threshold - RomGuidanceMargin
             THEN "Extend Fully" ELSE "")
         ELSE "")
    ELSE ""

\* the key is built for the right side whatever the arm
FeedbackArm_AlwaysRight(arm) == "RIGHT"

\* feedback_key = f"{arm.lower()}_feedback_count"
FeedbackArm(arm) == arm

\* setattr(history, feedback_key, getattr(history, feedback_key) + 1)
CountFeedback(h, arm) ==
    IF FeedbackArm(arm) = "RIGHT"
    THEN [h EXCEPT !.right_feedback_count = @ + 1]
    ELSE [h EXCEPT !.left_feedback_count = @ + 1]

FeedbackCount(h, arm) ==
    IF arm = "RIGHT" THEN h.right_feedback_count ELSE h.left_feedback_count

\* the velocity is not looked at
Confirmed_NoVelocity(hold_duration, velocity3) == hold_duration >= state_hold_time

\* the hold time is not looked at
Confirmed_NoHold(hold_duration, velocity3) == velocity3 < 3 * SettledVelocity

\* the hold has to be longer than state_hold_time
Confirmed_Strict(hold_duration, velocity3) ==
    hold_duration > state_hold_time /\ velocity3 < 3 * SettledVelocity

\* the confirmation test of process_rep
Confirmed(hold_duration, velocity3) ==
    hold_duration >= state_hold_time /\ velocity3 < 3 * SettledVelocity

\* feedback is given at the feedback velocity too
FeedbackDue_AtMost(velocity3) == velocity3 <= 3 * FeedbackVelocity

\* process_rep: "Form feedback (only when not in rapid motion)"
FeedbackDue(velocity3) == velocity3 < 3 * FeedbackVelocity

----------------------------------------------------------------------------
(* RepCounter.process_rep(arm, angle, metrics[arm], current_time, history) *)

process_rep(arm, angle, current_time) ==
    LET m0 == [metrics[arm] EXCEPT !.angle = angle]
        h == DequeAppend(angle_history[arm], angle)
    IN  /\ angle_history' = [angle_history EXCEPT ![arm] = h]
        /\ IF Len(h) < MinHistory
           THEN /\ metrics' = [metrics EXCEPT ![arm] = m0]
                /\ UNCHANGED <<pending_state, pending_state_start,
                               rep_start_time, history>>
           ELSE LET velocity3 == Velocity3(h)
                    prev_stage == m0.stage
                    m1 == [m0 EXCEPT !.feedback = ""]
                    target_state == _determine_target_state(
                        angle, calibration.contracted_threshold,
                        calibration.extended_threshold, prev_stage)
                    differs == target_state # prev_stage
                    same_pending == pending_state[arm] = target_state
                    confirmed ==
                        /\ differs
                        /\ same_pending
                        /\ Confirmed(current_time - pending_state_start[arm], velocity3)
                    m2 == IF confirmed
                          THEN TransitionMetrics(prev_stage, target_state, m1, current_time)
                          ELSE m1
                    rst == IF confirmed
                           THEN TransitionRepStart(prev_stage, target_state,
                                                   rep_start_time[arm], current_time)
                           ELSE rep_start_time[arm]
                    m3 == IF m2.stage = UP
                          THEN [m2 EXCEPT !.curr_rep_time = current_time - rst]
                          ELSE m2
                    text == IF FeedbackDue(velocity3)
                            THEN FormFeedback(angle, m3.stage, calibration)
                            ELSE ""
                IN  /\ pending_state' =
                         [pending_state EXCEPT ![arm] =
                            IF ~differs THEN None
                            ELSE IF same_pending THEN @
                            ELSE target_state]
                    /\ pending_state_start' =
                         [pending_state_start EXCEPT ![arm] =
                            IF differs /\ ~same_pending THEN current_time ELSE @]
                    /\ rep_start_time' = [rep_start_time EXCEPT ![arm] = rst]
                    /\ metrics' = [metrics EXCEPT ![arm] =
                            IF text = "" THEN m3 ELSE [m3 EXCEPT !.feedback = text]]
                    /\ history' = IF text = "" THEN history
                                  ELSE CountFeedback(history, arm)

----------------------------------------------------------------------------
(* PoseProcessor.get_both_arm_angles and CalibrationManager.  An average is *)
(* kept as an exact fraction num / den.                                     *)

\* what PoseProcessor.extract_arm_angle yields for a side: an angle, or None
Tracked(angle) == [tracked |-> TRUE, angle |-> angle]
Untracked == [tracked |-> FALSE, angle |-> 0]

\* PoseProcessor.get_both_arm_angles: results.arms[s] is what extract_arm_angle
\* yields for side s when there are landmarks
get_both_arm_angles(results) ==
    IF ~results.pose_landmarks THEN [s \in Sides |-> Untracked] ELSE results.arms

\* CalibrationManager.__init__: hold_time = 5 s
hold_time == 5 * TicksPerSecond

\* constants.CALIBRATION_HOLD_TIME = 5 s
CALIBRATION_HOLD_TIME == 5 * TicksPerSecond

\* CalibrationManager.__init__: min_samples = 20
min_samples == 20

\* the prompts CalibrationManager writes to data.message
MsgExtendHold == "EXTEND BOTH ARMS FULLY - HOLD STEADY"
MsgNotDetected == "STAND IN FRAME - BODY NOT DETECTED"
MsgExtendVisible == "EXTEND BOTH ARMS - KEEP ARMS VISIBLE"
MsgCurlVisible == "CURL BOTH ARMS - KEEP ARMS VISIBLE"
MsgCurlHold == "CURL BOTH ARMS COMPLETELY - HOLD STEADY"
MsgHoldLonger == "HOLD POSITION LONGER - KEEP ARMS VISIBLE"
MsgWarning == "CALIBRATION WARNING: Using default ranges"
MsgComplete == "CALIBRATION COMPLETE"

\* a reset that would also restore the default thresholds
reset_RestoresThresholds(data) ==
    [data EXCEPT !.extended_angles = [s \in Sides |-> <<>>],
                 !.contracted_angles = [s \in Sides |-> <<>>],
                 !.progress = 0,
                 !.contracted_threshold = 50,
                 !.extended_threshold = 160,
                 !.safe_angle_min = 30,
                 !.safe_angle_max = 175]

\* CalibrationData.reset
reset(data) ==
    [data EXCEPT !.extended_angles = [s \in Sides |-> <<>>],
                 !.contracted_angles = [s \in Sides |-> <<>>],
                 !.progress = 0]

\* CalibrationManager.start at time t
start(data, t) ==
    [reset(data) EXCEPT !.active = TRUE, !.phase = EXTEND, !.phase_start_time = t,
                        !.message = MsgExtendHold]

\* the sum of the first n values
RECURSIVE SumTo(_, _)
SumTo(values, n) == IF n = 0 THEN 0 ELSE values[n] + SumTo(values, n - 1)

Sum(values) == SumTo(values, Len(values))

\* F(x), with x worked out once
Apply(F(_), x) == CHOOSE y \in {F(v) : v \in {x}} : TRUE

\* the i-th of the values in ascending order: the value with fewer than i
\* values below it and at least i values not above it
OrderStatistic(values, i) ==
    CHOOSE v \in {values[j] : j \in DOMAIN values} :
        /\ Cardinality({j \in DOMAIN values : values[j] < v}) < i
        /\ Cardinality({j \in DOMAIN values : values[j] <= v}) >= i

\* four times np.percentile(values, 25 * q) for q = 1, 3: linear interpolation
\* between the two order statistics around position q * (n - 1) / 4
Percentile4(values, q) ==
    LET k == (q * (Len(values) - 1)) \div 4
        r == (q * (Len(values) - 1)) % 4
    IN  IF r = 0 THEN 4 * OrderStatistic(values, k + 1)
        ELSE (4 - r) * OrderStatistic(values, k + 1) + r * OrderStatistic(values, k + 2)

\* the bounds are the quartiles themselves
OutlierBounds8_NoMargin(q1, q3) == [lower_bound |-> 2 * q1, upper_bound |-> 2 * q3]

\* eight times the bounds q1 - 1.5 * iqr and q3 + 1.5 * iqr
OutlierBounds8(q1, q3) ==
    [lower_bound |-> 2 * q1 - 3 * (q3 - q1), upper_bound |-> 2 * q3 + 3 * (q3 - q1)]

\* np.mean
Mean(values) == [num |-> Sum(values), den |-> Len(values)]

\* CalibrationManager._calculate_robust_average
_calculate_robust_average(values) ==
    IF values = <<>> THEN [num |-> 0, den |-> 1]
    ELSE IF Len(values) < 3 THEN Mean(values)
    ELSE LET Bounds(q1) == Apply(LAMBDA q3 : OutlierBounds8(q1, q3), Percentile4(values, 3))
             Average(bounds) ==
                 LET Kept(v) == bounds.lower_bound <= 8 * v /\ 8 * v <= bounds.upper_bound
                     filtered == SelectSeq(values, Kept)
                 IN  IF filtered # <<>> THEN Mean(filtered) ELSE Mean(values)
         IN  Apply(Average, Apply(Bounds, Percentile4(values, 1)))

\* min and max of two averages
MinAverage(a, b) == IF a.num * b.den <= b.num * a.den THEN a ELSE b
MaxAverage(a, b) == IF a.num * b.den >= b.num * a.den THEN a ELSE b

\* the fraction is rounded to the nearest integer
int_Round(num, den) == (2 * num + den) \div (2 * den)

\* int(x): the fraction num / den truncated towards zero
int(num, den) == IF num >= 0 THEN num \div den ELSE -((-num) \div den)

\* int(average + k)
IntPlus(average, k) == int(average.num + k * average.den, average.den)

\* the range is never found too small
RangeTooSmall_Never(extended_threshold, contracted_threshold) == FALSE

\* the range is found too small below 30 degrees
RangeTooSmall_Below30(extended_threshold, contracted_threshold) ==
    extended_threshold - contracted_threshold < 30

\* _finalize_calibration: "Validate thresholds make sense"
RangeTooSmall(extended_threshold, contracted_threshold) ==
    extended_threshold - contracted_threshold < 40

\* the thresholds _finalize_calibration derives from the averages ext (the
\* lower of the two extended averages) and con (the higher of the two
\* contracted averages), before it validates them
Thresholds(extended_threshold, contracted_threshold) ==
    [extended_threshold |-> extended_threshold,
     contracted_threshold |-> contracted_threshold,
     safe_angle_min |->
         IF contracted_threshold - 15 > 15 THEN contracted_threshold - 15 ELSE 15,
     safe_angle_max |-> Min(175, extended_threshold + 15)]

DerivedThresholds(data) ==
    LET Extended(right_ext) ==
            Apply(LAMBDA left_ext : IntPlus(MinAverage(right_ext, left_ext), -8),
                  _calculate_robust_average(data.extended_angles["LEFT"]))
        Contracted(right_con) ==
            Apply(LAMBDA left_con : IntPlus(MaxAverage(right_con, left_con), 8),
                  _calculate_robust_average(data.contracted_angles["LEFT"]))
        WithExtended(extended_threshold) ==
            Apply(LAMBDA contracted_threshold :
                      Thresholds(extended_threshold, contracted_threshold),
                  Apply(Contracted,
                        _calculate_robust_average(data.contracted_angles["RIGHT"])))
    IN  Apply(WithExtended,
              Apply(Extended, _calculate_robust_average(data.extended_angles["RIGHT"])))

\* _finalize_calibration once the thresholds t are derived
Validated(data, t) ==
    LET derived == [data EXCEPT !.extended_threshold = t.extended_threshold,
                                !.contracted_threshold = t.contracted_threshold,
                                !.safe_angle_min = t.safe_angle_min,
                                !.safe_angle_max = t.safe_angle_max]
        validated ==
            IF RangeTooSmall(t.extended_threshold, t.contracted_threshold)
            THEN [derived EXCEPT !.contracted_threshold = 50,
                                 !.extended_threshold = 160,
                                 !.safe_angle_min = 30,
                                 !.safe_angle_max = 175,
                                 !.message = MsgWarning]
            ELSE derived
    IN  [validated EXCEPT !.active = FALSE, !.message = MsgComplete]

\* CalibrationManager._finalize_calibration
_finalize_calibration(data) ==
    Apply(LAMBDA t : Validated(data, t), DerivedThresholds(data))

\* the test is made on the right side's samples only
SamplesOk_RightOnly(samples) == Len(samples["RIGHT"]) >= min_samples

\* process_frame: samples_ok
SamplesOk(samples) ==
    Len(samples["RIGHT"]) >= min_samples /\ Len(samples["LEFT"]) >= min_samples

\* CalibrationManager._transition_to_contract
_transition_to_contract(data, current_time) ==
    [data EXCEPT !.phase = CONTRACT, !.phase_start_time = current_time,
                 !.message = MsgCurlHold, !.progress = 0]

\* the prompt is changed but the phase timer is left running
ExtendPhase_KeepsTimer(data, current_time) == [data EXCEPT !.message = MsgHoldLonger]

\* the samples of the phase are dropped when the phase is extended
ExtendPhase_DropsSamples(data, current_time) ==
    [data EXCEPT !.phase_start_time = current_time, !.message = MsgHoldLonger,
                 !.extended_angles =
                     IF data.phase = EXTEND THEN [s \in Sides |-> <<>>] ELSE @,
                 !.contracted_angles =
                     IF data.phase = CONTRACT THEN [s \in Sides |-> <<>>] ELSE @]

\* process_frame, "Not enough data, extend the phase"
ExtendPhase(data, current_time) ==
    [data EXCEPT !.phase_start_time = current_time, !.message = MsgHoldLonger]

\* process_frame: the samples of the frame are appended to the phase's buffers
Collect(data, angles) ==
    LET with(samples) ==
            [arm \in Sides |->
                IF angles[arm].tracked THEN Append(samples[arm], angles[arm].angle)
                ELSE samples[arm]]
    IN  IF data.phase = EXTEND
        THEN [data EXCEPT !.extended_angles = with(@)]
        ELSE IF data.phase = CONTRACT
        THEN [data EXCEPT !.contracted_angles = with(@)]
        ELSE data

\* process_frame: "Update message based on visibility"
VisibilityMessage(calibration_phase, both_visible) ==
    IF ~both_visible
    THEN (IF calibration_phase = EXTEND THEN MsgExtendVisible ELSE MsgCurlVisible)
    ELSE (IF calibration_phase = EXTEND THEN MsgExtendHold ELSE MsgCurlHold)

\* CalibrationManager.process_frame(results, current_time): the data it leaves
\* and the value it returns
process_frame(data, results, current_time) ==
    IF ~data.active THEN [data |-> data, returned |-> TRUE]
    ELSE IF ~results.pose_landmarks
    THEN [data |-> [data EXCEPT !.message = MsgNotDetected], returned |-> FALSE]
    ELSE
        LET elapsed == current_time - data.phase_start_time
            angles == get_both_arm_angles(results)
            both_visible == \A arm \in Sides : angles[arm].tracked
            collected ==
                Collect([data EXCEPT
                            !.progress = Min(int(100 * elapsed, hold_time), 100)],
                        angles)
            prompted ==
                [collected EXCEPT !.message = VisibilityMessage(data.phase, both_visible)]
        IN  IF elapsed < hold_time THEN [data |-> prompted, returned |-> FALSE]
            ELSE IF data.phase = EXTEND
            THEN [data |-> IF SamplesOk(prompted.extended_angles)
                           THEN _transition_to_contract(prompted, current_time)
                           ELSE ExtendPhase(prompted, current_time),
                  returned |-> FALSE]
            ELSE IF data.phase = CONTRACT
            THEN (IF SamplesOk(prompted.contracted_angles)
                  THEN [data |-> _finalize_calibration(prompted), returned |-> TRUE]
                  ELSE [data |-> ExtendPhase(prompted, current_time),
                        returned |-> FALSE])
            ELSE [data |-> prompted, returned |-> FALSE]

----------------------------------------------------------------------------
(* AngleCalculator and PoseProcessor.  A point is <<x, y>>.  The points of   *)
(* a triple lie on the axes and diagonals through the vertex, where          *)
(* np.arctan2 is a whole number of degrees.  A visibility is in hundredths.  *)
(* The EMA is kept as an exact fraction num / den.                           *)

\* AngleCalculator.__init__(smoothing_window=7)
smoothing_window == 7

\* the visibility 0.6 below which a landmark is not used
MinVisibility == 60

\* self.ema[arm] is None
NoEma == [set |-> FALSE, num |-> 0, den |-> 1]

Ema(num, den) == [set |-> TRUE, num |-> num, den |-> den]

\* AngleCalculator.__init__
NewAngleCalculator ==
    [buffers |-> [s \in Sides |-> <<>>], ema |-> [s \in Sides |-> NoEma]]

\* np.degrees(np.arctan2(y, x)) for a vector along an axis or a diagonal, and
\* for the null vector
arctan2(y, x) ==
    IF y = 0 THEN (IF x >= 0 THEN 0 ELSE 180)
    ELSE IF x = 0 THEN (IF y > 0 THEN 90 ELSE -90)
    ELSE IF y > 0 THEN (IF x > 0 THEN 45 ELSE 135)
    ELSE (IF x > 0 THEN -45 ELSE -135)

\* the angle is not folded back
calculate_angle_NoFold(a, b, c) ==
    Abs(arctan2(c[2] - b[2], c[1] - b[1]) - arctan2(a[2] - b[2], a[1] - b[1]))

\* AngleCalculator.calculate_angle
calculate_angle(a, b, c) ==
    LET angle == Abs(arctan2(c[2] - b[2], c[1] - b[1])
                     - arctan2(a[2] - b[2], a[1] - b[1]))
    IN  IF angle > 180 THEN 360 - angle ELSE angle

\* deque.append with maxlen = smoothing_window
WindowAppend(buf, angle) ==
    IF Len(buf) < smoothing_window THEN Append(buf, angle) ELSE Append(Tail(buf), angle)

\* twice np.median(buf)
Median2(buf) ==
    IF Len(buf) % 2 = 1
    THEN 2 * OrderStatistic(buf, (Len(buf) + 1) \div 2)
    ELSE OrderStatistic(buf, Len(buf) \div 2) + OrderStatistic(buf, Len(buf) \div 2 + 1)

\* the EMA after the median m2 / 2: the median itself the first time, then
\* alpha * median + (1 - alpha) * ema with alpha = 0.5
UpdateEma(e, m2) ==
    IF ~e.set THEN Ema(m2, 2) ELSE Ema(m2 * e.den + 2 * e.num, 4 * e.den)

\* AngleCalculator.get_smoothed_angle on the calculator calc (its buffers and
\* ema): the calculator after the call and what the call returned
get_smoothed_angle(calc, arm, angle) ==
    LET buf == WindowAppend(calc.buffers[arm], angle)
    IN  Apply(LAMBDA e : [calc |-> [buffers |-> [calc.buffers EXCEPT ![arm] = buf],
                                    ema |-> [calc.ema EXCEPT ![arm] = e]],
                          returned |-> int(e.num, e.den)],
              UpdateEma(calc.ema[arm], Apply(Median2, buf)))

\* a landmark index list of the config: None or a list
NoList == [list |-> FALSE, items |-> <<>>]
List(items) == [list |-> TRUE, items |-> items]

\* mp_pose.*.value of the landmarks the Bicep Curl preset names
LEFT_SHOULDER == 11
RIGHT_SHOULDER == 12
LEFT_ELBOW == 13
RIGHT_ELBOW == 14
LEFT_WRIST == 15
RIGHT_WRIST == 16

\* EXERCISE_PRESETS["Bicep Curl"]
BicepCurl ==
    [right_landmarks |-> List(<<RIGHT_SHOULDER, RIGHT_ELBOW, RIGHT_WRIST>>),
     left_landmarks |-> List(<<LEFT_SHOULDER, LEFT_ELBOW, LEFT_WRIST>>)]

\* ExerciseConfig(): the index lists default to empty lists
DefaultExerciseConfig == [right_landmarks |-> List(<<>>), left_landmarks |-> List(<<>>)]

\* what a call did: it raised an exception, or returned a reading (an angle
\* or None); calc is the calculator after the call
Raises(exception, calc) == [raised |-> exception, reading |-> Untracked, calc |-> calc]
Returns(reading, calc) == [raised |-> "", reading |-> reading, calc |-> calc]

\* only the vertex is looked at
AllVisible_VertexOnly(landmarks, indices) ==
    landmarks[indices[2]].visibility >= MinVisibility

\* none of the three landmarks has visibility < 0.6
AllVisible(landmarks, indices) ==
    \A i \in 1..3 : landmarks[indices[i]].visibility >= MinVisibility

\* A_idx, B_idx, C_idx = indices: the exception the unpacking raises, if any;
\* neither is among those that extract_arm_angle catches
Unpacks(indices) ==
    IF ~indices.list THEN "TypeError"
    ELSE IF Len(indices.items) # 3 THEN "ValueError"
    ELSE ""

\* PoseProcessor.extract_arm_angle; landmarks is a function on 0..n-1, and
\* reading an index outside it raises IndexError, which is caught
extract_arm_angle(calc, cfg, landmarks, arm) ==
    LET indices == IF arm = "RIGHT" THEN cfg.right_landmarks ELSE cfg.left_landmarks
        idx == indices.items
    IN  IF Unpacks(indices) # "" THEN Raises(Unpacks(indices), calc)
        ELSE IF \E i \in 1..3 : idx[i] \notin DOMAIN landmarks THEN Returns(Untracked, calc)
        ELSE IF ~AllVisible(landmarks, idx) THEN Returns(Untracked, calc)
        ELSE Apply(LAMBDA r : Returns(Tracked(r.returned), r.calc),
                   get_smoothed_angle(calc, arm,
                       calculate_angle(<<landmarks[idx[1]].x, landmarks[idx[1]].y>>,
                                       <<landmarks[idx[2]].x, landmarks[idx[2]].y>>,
                                       <<landmarks[idx[3]].x, landmarks[idx[3]].y>>)))

\* PoseProcessor.get_both_arm_angles on the landmarks of a frame: the right
\* side first, then the left side on the calculator the right side left
BothArmAngles(calc, cfg, results) ==
    IF ~results.pose_landmarks
    THEN [raised |-> "", returned |-> [s \in Sides |-> Untracked], calc |-> calc]
    ELSE Apply(LAMBDA right :
                 IF right.raised # ""
                 THEN [raised |-> right.raised,
                       returned |-> [s \in Sides |-> Untracked], calc |-> right.calc]
                 ELSE Apply(LAMBDA left :
                              [raised |-> left.raised,
                               returned |-> [s \in Sides |->
                                  IF left.raised # "" THEN Untracked
                                  ELSE IF s = "RIGHT" THEN right.reading
                                  ELSE left.reading],
                               calc |-> left.calc],
                            extract_arm_angle(right.calc, cfg, results.landmark, "LEFT")),
               extract_arm_angle(calc, cfg, results.landmark, "RIGHT"))

----------------------------------------------------------------------------
(* The frame loop around RepCounter.  Each frame carries a timestamp and,  *)
(* for each side that is tracked on it, one process_rep call.  The variable *)
(* scenario describes the input the run is fed: the angles each side may   *)
(* show and the time steps between frames.                                 *)

\* bounds of the free-input specifications
MaxCalls == 11
MaxSteps == 8
MaxCallsBoth == 5
MaxCallsBand == 8

MaxTime == MaxSteps * state_hold_time

\* a frame carries the timestamp of the previous one, or comes state_hold_time later
Steps == {0, state_hold_time}

\* free input: one side is fed angles of a two-angle alphabet
OneSide(arm, angles) ==
    [name |-> "free", angles |-> [s \in Sides |-> IF s = arm THEN angles ELSE {}],
     steps |-> Steps, max_calls |-> MaxCalls, arm |-> arm, script |-> <<>>]

\* free input: both sides are fed
BothSides ==
    [name |-> "both", angles |-> [s \in Sides |-> IF s = "RIGHT" THEN {45, 60} ELSE {60}],
     steps |-> Steps, max_calls |-> MaxCallsBoth, arm |-> "RIGHT",
     script |-> <<>>]

\* Spec: one side is fed angles around the contracted threshold (50 - 5 = 45,
\* 50 + 5 = 55), jumping between the two terminal zones, or leaving and
\* re-entering the extended zone (160 + 5 = 165)
Alphabets ==
    {OneSide("RIGHT", {45, 60}), OneSide("LEFT", {45, 165}), OneSide("RIGHT", {60, 165})}

\* no CalibrationManager.process_frame call yet
NoCalibrationCall ==
    [called |-> FALSE, returned |-> FALSE, condition |-> "", issued |-> {},
     adverse |-> 0]

NoCall == [angle |-> -1, time |-> -1, processed |-> FALSE, duplicate |-> FALSE,
           credited |-> FALSE, before |-> NewArmMetrics(0),
           target |-> None, since |-> -1, entered_down |-> 0]

\* construction: the session builds the metrics, the history and the counter
ConstructedCounter ==
    /\ metrics = [s \in Sides |-> NewArmMetrics(0)]
    /\ angle_history = [s \in Sides |-> <<>>]
    /\ pending_state = [s \in Sides |-> None]
    /\ pending_state_start = [s \in Sides |-> 0]
    /\ rep_start_time = [s \in Sides |-> 0]
    /\ history = NewSessionHistory
    /\ last_call = [s \in Sides |-> NoCall]
    /\ credit_log = [s \in Sides |-> <<>>]
    /\ down_since_credit = [s \in Sides |-> TRUE]
    /\ angle_range = [s \in Sides |-> [lo |-> 180, hi |-> 0]]
    /\ stage_changes = [s \in Sides |-> 0]
    /\ calls = [s \in Sides |-> 0]
    /\ frame = 0

\* no function is studied by itself
NoFunctionCall == [name |-> "none"]

\* the rest of the state, which the frame loop and the calibration leave alone
\* no get_both_arm_angles call yet
NoPoseCall ==
    [frames |-> 0, raised |-> "", returned |-> [s \in Sides |-> Untracked],
     shown |-> [detected |-> FALSE, length |-> 0,
                arms |-> [s \in Sides |-> [points |-> <<>>, visibility |-> <<>>]]]]

\* AngleCalculator() and PoseProcessor(angle_calculator, EXERCISE_PRESETS["Bicep Curl"])
ConstructedPose ==
    /\ buffers = NewAngleCalculator.buffers
    /\ ema = NewAngleCalculator.ema
    /\ pose_log = NoPoseCall

\* no report taken
NoSummary == [s \in Sides |-> [total_reps |-> 0, error_count |-> 0]]

\* the session is constructed (init_session), no frame loop runs and no
\* stop_session event has arrived
ConstructedSession ==
    /\ phase = INACTIVE
    /\ countdown_start = 0
    /\ loop = [pc |-> "idle", branch |-> INACTIVE, completed |-> FALSE, frames |-> 0]
    /\ stopper = [pc |-> "idle", persist |-> FALSE, summary |-> NoSummary,
                  at_stop |-> NoSummary]
    /\ host = [session_stopped |-> FALSE, sessions |-> <<>>]

ConstructedRest ==
    /\ call = NoFunctionCall
    /\ ConstructedPose
    /\ config = BicepCurl
    /\ ConstructedSession

\* construction, at time 0 and with no calibration frame handled yet
Constructed ==
    /\ ConstructedCounter
    /\ ConstructedRest
    /\ now = 0
    /\ calibration_log = NoCalibrationCall

Init == Constructed /\ calibration = DefaultCalibration /\ scenario \in Alphabets

\* what a process_rep call is recorded to have done
Observe(arm, angle) ==
    LET credited == metrics'[arm].rep_count > metrics[arm].rep_count
        processed == Len(angle_history'[arm]) >= MinHistory
        \* the stage the frame proposes, and the time of the first of the
        \* processed frames in a row that proposed it
        target == IF processed
                  THEN _determine_target_state(
                           angle, calibration.contracted_threshold,
                           calibration.extended_threshold, metrics[arm].stage)
                  ELSE None
    IN  /\ last_call' = [last_call EXCEPT ![arm] =
              [angle |-> angle, time |-> now',
               processed |-> processed,
               duplicate |-> calls[arm] > 0 /\ @.angle = angle /\ @.time = now',
               credited |-> credited,
               before |-> metrics[arm],
               target |-> target,
               since |-> IF processed /\ @.target = target THEN @.since ELSE now',
               \* when the side last entered DOWN (it is constructed in DOWN)
               entered_down |-> IF metrics'[arm].stage = DOWN /\ metrics[arm].stage # DOWN
                                THEN now' ELSE @.entered_down]]
        /\ credit_log' = [credit_log EXCEPT ![arm] =
              IF credited
              THEN Append(@, [time |-> now', after_down |-> down_since_credit[arm],
                              rep_time |-> metrics'[arm].rep_time])
              ELSE @]
        /\ down_since_credit' = [down_since_credit EXCEPT ![arm] =
              IF credited THEN metrics'[arm].stage = DOWN
              ELSE @ \/ metrics'[arm].stage = DOWN]
        /\ angle_range' = [angle_range EXCEPT ![arm] =
              [lo |-> Min(@.lo, angle), hi |-> IF angle > @.hi THEN angle ELSE @.hi]]
        /\ stage_changes' = [stage_changes EXCEPT ![arm] =
              IF metrics'[arm].stage # metrics[arm].stage THEN @ + 1 ELSE @]
        /\ calls' = [calls EXCEPT ![arm] = @ + 1]

\* a frame d ticks after the previous one on which side arm shows angle
Frame(arm, angle, d) ==
    /\ calls[arm] < scenario.max_calls
    /\ now + d <= MaxTime
    /\ now' = now + d
    /\ process_rep(arm, angle, now')
    /\ Observe(arm, angle)
    /\ UNCHANGED <<calVars, scenVars, restVars>>

Next ==
    \E arm \in Sides : \E angle \in scenario.angles[arm] : \E d \in scenario.steps :
        Frame(arm, angle, d)

Spec == Init /\ [][Next]_vars

\* both sides fed
InitBoth == Constructed /\ calibration = DefaultCalibration /\ scenario = BothSides

SpecBoth == InitBoth /\ [][Next]_vars

\* SpecBand: one side is fed angles that brush the contracted zone (45 = C - h is
\* in it, 46 is not) or that stay inside the band between C + h = 55 and
\* E - h = 155
BandAlphabets ==
    {[OneSide(e.arm, e.angles) EXCEPT !.max_calls = MaxCallsBand] :
        e \in {[arm |-> "RIGHT", angles |-> {45, 60}],
                [arm |-> "LEFT", angles |-> {46, 60}],
                [arm |-> "LEFT", angles |-> {56, 154}]}}

InitBand ==
    Constructed /\ calibration = DefaultCalibration /\ scenario \in BandAlphabets

SpecBand == InitBand /\ [][Next]_vars

\* SpecForm: one side is fed angles outside the safe range 30..175 (25, 178)
\* and inside it (100); the jump between the two is faster than the feedback
\* velocity (75 / 3 = 25 and 78 / 3 = 26 degrees per frame), a repeated angle
\* is not.  The jump between 25 and 85 is exactly as fast as the feedback
\* velocity (60 / 3 = 20), the one between 25 and 84 just slower, and a side
\* fed 100 and 165 is given no text at 165.
MaxCallsForm == 7

FormAlphabets ==
    {[OneSide(e.arm, e.angles) EXCEPT !.max_calls = MaxCallsForm] :
        e \in {[arm |-> "RIGHT", angles |-> {25, 100}],
                [arm |-> "LEFT", angles |-> {25, 100}],
                [arm |-> "LEFT", angles |-> {178, 100}],
                [arm |-> "RIGHT", angles |-> {178, 100}],
                [arm |-> "RIGHT", angles |-> {25, 85}],
                [arm |-> "LEFT", angles |-> {25, 84}],
                [arm |-> "LEFT", angles |-> {100, 165}]}}

InitForm ==
    Constructed /\ calibration = DefaultCalibration /\ scenario \in FormAlphabets

SpecForm == InitForm /\ [][Next]_vars

\* SpecConfirm: one side is fed angles that jump between the contracted zone
\* and the band at exactly the settled velocity (60 - 15 = 45 = 3 * 15), just
\* below it (60 - 16 = 44), or far above it (165 - 45 = 120)
MaxCallsConfirm == 9

ConfirmAlphabets ==
    {[OneSide(e.arm, e.angles) EXCEPT !.max_calls = MaxCallsConfirm] :
        e \in {[arm |-> "RIGHT", angles |-> {15, 60}],
                [arm |-> "LEFT", angles |-> {16, 60}],
                [arm |-> "LEFT", angles |-> {45, 165}]}}

InitConfirm ==
    Constructed /\ calibration = DefaultCalibration /\ scenario \in ConfirmAlphabets

SpecConfirm == InitConfirm /\ [][Next]_vars

\* SpecTarget: _determine_target_state by itself, on every whole angle up to
\* MaxAngle, every stage, and thresholds C < E that lie far apart (the
\* defaults 50 / 160, the scenario's 55 / 155, the extremes 0 / 180), less than
\* two margins apart (50 / 58, 90 / 91) or within a margin of the ends of the
\* scale (3 / 178)
MaxAngle == 180

TargetThresholds ==
    {<<50, 160>>, <<55, 155>>, <<0, 180>>, <<50, 58>>, <<90, 91>>, <<3, 178>>,
     <<50, 60>>, <<10, 175>>}

InitTarget ==
    /\ ConstructedCounter
    /\ now = 0
    /\ calibration_log = NoCalibrationCall
    /\ calibration = DefaultCalibration
    /\ scenario = [name |-> "target state"]
    /\ ConstructedPose
    /\ config = BicepCurl
    /\ ConstructedSession
    /\ \E angle \in 0..MaxAngle, t \in TargetThresholds, current_stage \in ArmStage :
          call = [name |-> "_determine_target_state", angle |-> angle,
                  contracted |-> t[1], extended |-> t[2],
                  current_stage |-> current_stage, returned |-> None]

\* the call is made
DetermineTargetState ==
    /\ call.name = "_determine_target_state"
    /\ call.returned = None
    /\ call' = [call EXCEPT !.returned =
                   _determine_target_state(call.angle, call.contracted,
                                           call.extended, call.current_stage)]
    /\ UNCHANGED <<calVars, repVars, now, obsVars, scenVars, poseVars, sessVars>>

SpecTarget == InitTarget /\ [][DetermineTargetState]_vars

\* SpecRobust: _calculate_robust_average by itself, on every list of up to
\* MaxValues samples drawn from a cluster of four neighbouring angles and one
\* angle far below it
MaxValues == 6

SampleAngles == {40, 149, 150, 151, 152}

SampleLists == UNION {[1..n -> SampleAngles] : n \in 0..MaxValues}

InitRobust ==
    /\ ConstructedCounter
    /\ now = 0
    /\ calibration_log = NoCalibrationCall
    /\ calibration = DefaultCalibration
    /\ scenario = [name |-> "robust average"]
    /\ ConstructedPose
    /\ config = BicepCurl
    /\ ConstructedSession
    /\ \E values \in SampleLists :
          call = [name |-> "_calculate_robust_average", values |-> values,
                  returned |-> [num |-> 0, den |-> 1], done |-> FALSE]

\* the call is made
CalculateRobustAverage ==
    /\ call.name = "_calculate_robust_average"
    /\ ~call.done
    /\ call' = [call EXCEPT !.returned = _calculate_robust_average(call.values),
                            !.done = TRUE]
    /\ UNCHANGED <<calVars, repVars, now, obsVars, scenVars, poseVars, sessVars>>

SpecRobust == InitRobust /\ [][CalculateRobustAverage]_vars

----------------------------------------------------------------------------
(* The pose pipeline: get_both_arm_angles is handed one frame after the     *)
(* other.  A frame is described by whether the body was detected, how many  *)
(* landmarks it carries, and for each side the three points and the three   *)
(* visibilities of the landmarks the Bicep Curl preset names.               *)

\* bounds of the pose runs
MaxLandmarks == 17
MaxPoseFrames == 8
MaxGatedFrames == 3
MaxReach == 2

\* the vectors along the axes and the diagonals, and the null vector
Directions == {<<dx, dy>> : dx \in {-1, 0, 1}, dy \in {-1, 0, 1}}

\* the triple with vertex b, the first point k steps from it along da and the
\* third point one step from it along dc
Triple(b, da, k, dc) ==
    <<(<<b[1] + k * da[1], b[2] + k * da[2]>>), b, (<<b[1] + dc[1], b[2] + dc[2]>>)>>

\* triples by the angle at the vertex
Straight == Triple(<<5, 5>>, <<0, -1>>, 1, <<0, 1>>)
Folded == Triple(<<5, 5>>, <<1, 1>>, 2, <<1, 1>>)
RightAngle == Triple(<<5, 5>>, <<0, -1>>, 1, <<1, 0>>)
Reflex == Triple(<<5, 5>>, <<-1, -1>>, 1, <<-1, 1>>)
Acute == Triple(<<3, 4>>, <<1, 0>>, 2, <<1, -1>>)

Visible == <<100, 100, 100>>

\* the landmarks of a frame: a function on 0 .. length - 1
Landmarks(length, arms) ==
    LET place == BicepCurl
        At(i, s) == {j \in 1..3 :
                       (IF s = "RIGHT" THEN place.right_landmarks
                        ELSE place.left_landmarks).items[j] = i}
    IN  [i \in 0..(length - 1) |->
            IF \E s \in Sides : At(i, s) # {}
            THEN LET s == CHOOSE side \in Sides : At(i, side) # {}
                     j == CHOOSE k \in At(i, s) : TRUE
                 IN  [x |-> arms[s].points[j][1], y |-> arms[s].points[j][2],
                      visibility |-> arms[s].visibility[j]]
            ELSE [x |-> 0, y |-> 0, visibility |-> 100]]

\* the results of the pose detection on the frame described by shown
PoseResults(shown) ==
    [pose_landmarks |-> shown.detected, landmark |-> Landmarks(shown.length, shown.arms)]

\* the input of a pose run: the config, and what the frames may show
PoseRun(cfg, gated, triples, visibilities, detected, lengths, max_frames) ==
    [name |-> "pose", arm |-> gated, cfg |-> cfg, triples |-> triples,
     visibilities |-> [s \in Sides |-> IF s = gated THEN visibilities ELSE {Visible}],
     detected |-> detected, lengths |-> lengths, max_frames |-> max_frames]

\* the index lists a config may hold in place of the preset's
BrokenLists ==
    {DefaultExerciseConfig.right_landmarks, NoList, List(<<RIGHT_SHOULDER, RIGHT_ELBOW>>),
     List(<<RIGHT_SHOULDER, RIGHT_ELBOW, RIGHT_WRIST, LEFT_WRIST>>),
     List(<<RIGHT_SHOULDER, RIGHT_ELBOW, MaxLandmarks>>)}

\* smoothing runs: every landmark is visible and a side moves between
\* extreme angles; gating runs: a landmark of one side may be below the
\* visibility 0.6 (0.59) or just at it, or the body may not be detected;
\* config runs: an index list is empty (the default config), missing,
\* incomplete, too long or out of range, or the frame is short of landmarks
PoseRuns ==
    {PoseRun(BicepCurl, "RIGHT", [s \in Sides |-> IF s = "RIGHT" THEN {Straight, Folded}
                                                  ELSE {RightAngle}],
             {Visible}, {TRUE}, {MaxLandmarks}, MaxPoseFrames),
     PoseRun(BicepCurl, "LEFT", [s \in Sides |-> IF s = "LEFT" THEN {Reflex, Straight}
                                                 ELSE {Acute}],
             {Visible}, {TRUE}, {MaxLandmarks}, MaxPoseFrames)}
    \cup {PoseRun(BicepCurl, gated,
                  [s \in Sides |-> IF s = gated THEN {Acute} ELSE {Straight, Folded}],
                  {Visible, <<59, 100, 100>>, <<100, 59, 100>>, <<100, 100, 59>>,
                   <<60, 60, 60>>},
                  BOOLEAN, {MaxLandmarks}, MaxGatedFrames) : gated \in Sides}
    \cup {PoseRun([right_landmarks |-> r, left_landmarks |-> l], "RIGHT",
                  [s \in Sides |-> {Acute}], {Visible}, {TRUE},
                  {MaxLandmarks, RIGHT_ELBOW}, MaxGatedFrames) :
            r \in BrokenLists \cup {BicepCurl.right_landmarks},
            l \in BrokenLists \cup {BicepCurl.left_landmarks}}

\* the arguments of a calculate_angle call studied by itself
AngleCalls ==
    {[name |-> "calculate_angle", a |-> t[1], b |-> t[2], c |-> t[3],
      returned |-> 0, done |-> FALSE] :
        t \in {Triple(b, da, k, dc) :
                  b \in {<<0, 0>>, <<5, 5>>}, da \in Directions, k \in 1..MaxReach,
                  dc \in Directions}}

InitPose ==
    /\ ConstructedCounter
    /\ ConstructedPose
    /\ ConstructedSession
    /\ now = 0
    /\ calibration_log = NoCalibrationCall
    /\ calibration = DefaultCalibration
    /\ \/ scenario \in PoseRuns /\ call = NoFunctionCall /\ config = scenario.cfg
       \/ /\ scenario = [name |-> "calculate_angle"]
          /\ call \in AngleCalls
          /\ config = BicepCurl

\* the call is made
CalculateAngle ==
    /\ call.name = "calculate_angle"
    /\ ~call.done
    /\ call' = [call EXCEPT !.returned = calculate_angle(call.a, call.b, call.c),
                            !.done = TRUE]
    /\ UNCHANGED <<calVars, repVars, now, obsVars, scenVars, poseVars, sessVars>>

\* the frame described by shown is handed to get_both_arm_angles; an
\* exception ends the run
PoseFrame(shown) ==
    /\ scenario.name = "pose"
    /\ pose_log.frames < scenario.max_frames
    /\ pose_log.raised = ""
    /\ \E r \in {BothArmAngles([buffers |-> buffers, ema |-> ema], config,
                               PoseResults(shown))} :
          /\ buffers' = r.calc.buffers
          /\ ema' = r.calc.ema
          /\ pose_log' = [frames |-> pose_log.frames + 1, raised |-> r.raised,
                          returned |-> r.returned, shown |-> shown]
    /\ UNCHANGED <<calVars, repVars, now, obsVars, scenVars, call, config, sessVars>>

\* what the frames of the run may show
Shown ==
    IF scenario.name # "pose" THEN {}
    ELSE
    {[detected |-> d, length |-> n,
      arms |-> [s \in Sides |-> [points |-> IF s = "RIGHT" THEN tr ELSE tl,
                                 visibility |-> IF s = "RIGHT" THEN vr ELSE vl]]] :
        d \in scenario.detected, n \in scenario.lengths,
        tr \in scenario.triples["RIGHT"], tl \in scenario.triples["LEFT"],
        vr \in scenario.visibilities["RIGHT"], vl \in scenario.visibilities["LEFT"]}

NextPose ==
    \/ CalculateAngle
    \/ \E shown \in Shown : PoseFrame(shown)

SpecPose == InitPose /\ [][NextPose]_vars

----------------------------------------------------------------------------
(* Literal scenarios: a script of frames at 30 fps is replayed on one side,  *)
(* with the thresholds the scenarios name (C = 55, E = 155, safe 35..170).   *)
(* A frame on which the side is not tracked makes no process_rep call.       *)

\* the frame period at 30 fps
FrameTicks == TicksPerSecond \div 30

ScenarioCalibration ==
    [DefaultCalibration EXCEPT
        !.contracted_threshold = 55, !.extended_threshold = 155,
        !.safe_angle_min = 35, !.safe_angle_max = 170]

\* n copies of frame f
Repeat(f, n) == [i \in 1..n |-> f]

\* a linear sweep from angle a to angle b over n frame periods (n + 1 frames),
\* each sample rounded to a whole degree
Ramp(a, b, n) ==
    [i \in 1..(n + 1) |->
        Tracked(IF a <= b
                THEN a + (2 * (b - a) * (i - 1) + n) \div (2 * n)
                ELSE a - (2 * (a - b) * (i - 1) + n) \div (2 * n))]

\* 54, 56, 54, 56, ... (or 56, 54, ...) for 2 s
JitterScript(first) ==
    [i \in 1..((2 * TicksPerSecond) \div FrameTicks) |->
        Tracked(IF i % 2 = 1 THEN first ELSE 110 - first)]

\* 160 -> 60 over 0.8 s, 10 untracked frames, 60 -> 160 over 0.8 s
DropoutScript ==
    LET n == (8 * TicksPerSecond) \div (10 * FrameTicks)
    IN  Ramp(160, 60, n) \o Repeat(Untracked, 10) \o Ramp(60, 160, n)

\* the bicep curl of the happy path
CurlSamples == <<160, 158, 150, 120, 90, 60, 50, 48, 50, 70, 110, 150, 160>>

\* the curl with each sample shown on hold consecutive frames
CurlScript(hold) ==
    [i \in 1..(hold * Len(CurlSamples)) |-> Tracked(CurlSamples[((i - 1) \div hold) + 1])]

\* the curl with each sample shown on 3 frames and the side lost for one frame
\* after the first k frames
LossyCurlScript(k) ==
    SubSeq(CurlScript(3), 1, k) \o <<Untracked>>
        \o SubSeq(CurlScript(3), k + 1, Len(CurlScript(3)))

Script(name, arm, script) ==
    [name |-> name, angles |-> [s \in Sides |-> {}], steps |-> {}, max_calls |-> 0,
     arm |-> arm, script |-> script]

Scenarios ==
    {Script("jitter", arm, JitterScript(first)) : arm \in Sides, first \in {54, 56}}
    \cup {Script("dropout", "RIGHT", DropoutScript)}
    \cup {Script("slow curl", "RIGHT", CurlScript(12)),
          Script("fast curl", "RIGHT", CurlScript(1))}
    \cup {Script("lossy curl", arm, LossyCurlScript(k)) :
            arm \in Sides, k \in 0..Len(CurlScript(3))}

InitScenario ==
    /\ Constructed
    /\ calibration = ScenarioCalibration
    /\ scenario \in Scenarios

\* a side is handed to process_rep whatever the frame shows of it
CallsProcessRep_Always(reading) == TRUE

\* the session calls process_rep for a side only on a frame that has an angle
\* for it
CallsProcessRep(reading) == reading.tracked

\* the next frame of the script shows the side's angle
Feed ==
    /\ frame < Len(scenario.script)
    /\ CallsProcessRep(scenario.script[frame + 1])
    /\ now' = now + FrameTicks
    /\ process_rep(scenario.arm, scenario.script[frame + 1].angle, now')
    /\ Observe(scenario.arm, scenario.script[frame + 1].angle)
    /\ frame' = frame + 1
    /\ UNCHANGED <<calVars, scenario, restVars>>

\* on the next frame of the script the side is not tracked: no call is made
Drop ==
    /\ frame < Len(scenario.script)
    /\ ~CallsProcessRep(scenario.script[frame + 1])
    /\ now' = now + FrameTicks
    /\ frame' = frame + 1
    /\ UNCHANGED <<calVars, repVars, obsVars, scenario, restVars>>

NextScenario == Feed \/ Drop

SpecScenario == InitScenario /\ [][NextScenario]_vars

\* the script has been replayed to its end
Replayed(name) == scenario.name = name /\ frame = Len(scenario.script)

----------------------------------------------------------------------------
(* Claims about rep crediting, checked under Spec *)

\* the side's latest call changed its stage from UP to MOVING_DOWN or DOWN
LeftUpDownwards(s) ==
    /\ last_call[s].processed
    /\ last_call[s].before.stage = UP
    /\ metrics[s].stage \in {MOVING_DOWN, DOWN}

\* C1: rep_count never decreases over process_rep calls, one call raises it by
\* at most 1, and every credit so far shows in the snapshot (to_dict)
C1_RepCountMonotone ==
    /\ [][\A s \in Sides :
            /\ metrics'[s].rep_count >= metrics[s].rep_count
            /\ metrics'[s].rep_count <= metrics[s].rep_count + 1
            /\ to_dict(metrics'[s]).rep_count >= to_dict(metrics[s]).rep_count]_vars
    /\ [](\A s \in Sides : to_dict(metrics[s]).rep_count = Len(credit_log[s]))

\* a rep was credited and a later call of that side has been made
C1_Witness ==
    \E s \in Sides :
        /\ Len(credit_log[s]) >= 1
        /\ last_call[s].processed
        /\ ~last_call[s].credited
        /\ to_dict(metrics[s]).rep_count >= 1

\* C2: two successive credits of a side are at least MIN_REP_DURATION apart
C2_CreditsSpaced ==
    \A s \in Sides : \A i \in 1..(Len(credit_log[s]) - 1) :
        credit_log[s][i + 1].time - credit_log[s][i].time >= MIN_REP_DURATION

\* a side has been credited twice
C2_Witness == \E s \in Sides : Len(credit_log[s]) >= 2

\* C3: a call credits a rep iff it changes the stage from UP to MOVING_DOWN or
\* DOWN and current_time - last_down_time >= min_rep_duration; a credit raises
\* rep_count by 1, sets rep_time to that difference, last_down_time to
\* current_time and curr_rep_time to 0; a stage change that fails the duration
\* test leaves rep_count, rep_time, min_rep_time and last_down_time alone
C3_CreditRule ==
    \A s \in Sides :
        calls[s] > 0 =>
            LET b == last_call[s].before
                m == metrics[s]
                t == last_call[s].time
                long_enough == t - b.last_down_time >= min_rep_duration
            IN  /\ (m.rep_count # b.rep_count) <=> (LeftUpDownwards(s) /\ long_enough)
                /\ (LeftUpDownwards(s) /\ long_enough) =>
                      /\ m.rep_count = b.rep_count + 1
                      /\ m.rep_time = t - b.last_down_time
                      /\ m.last_down_time = t
                      /\ m.curr_rep_time = 0
                /\ (LeftUpDownwards(s) /\ ~long_enough) =>
                      /\ m.stage # b.stage
                      /\ m.rep_count = b.rep_count
                      /\ m.rep_time = b.rep_time
                      /\ m.min_rep_time = b.min_rep_time
                      /\ m.last_down_time = b.last_down_time

\* after an earlier credit, a call took the side out of UP too soon to be credited
C3_Witness ==
    \E s \in Sides :
        /\ Len(credit_log[s]) >= 1
        /\ LeftUpDownwards(s)
        /\ ~last_call[s].credited

\* C4: between two successive credits of a side its stage has been DOWN on at
\* least one frame
C4_DownBetweenCredits ==
    \A s \in Sides : \A i \in 2..Len(credit_log[s]) : credit_log[s][i].after_down

\* C9: a call identical in side, angle and timestamp to the side's previous call
\* never credits a rep
C9_DuplicateFrameHarmless ==
    \A s \in Sides : last_call[s].duplicate => ~last_call[s].credited

----------------------------------------------------------------------------
(* Independence of the two sides, checked under SpecBoth *)

\* C5: a process_rep call for one side changes nothing of the other side: its
\* ArmMetrics, angle history, pending state, pending start time, rep start time
\* and feedback count stay as they were
C5_SidesIndependent ==
    [][\A arm \in Sides :
          calls'[arm] # calls[arm] =>
              /\ metrics'[Other(arm)] = metrics[Other(arm)]
              /\ angle_history'[Other(arm)] = angle_history[Other(arm)]
              /\ pending_state'[Other(arm)] = pending_state[Other(arm)]
              /\ pending_state_start'[Other(arm)] = pending_state_start[Other(arm)]
              /\ rep_start_time'[Other(arm)] = rep_start_time[Other(arm)]
              /\ FeedbackCount(history', Other(arm)) = FeedbackCount(history, Other(arm))]_vars

\* a call that counted feedback for one side while the other side, fed too, has
\* counted feedback and holds a pending state
C5_Witness ==
    \E arm \in Sides :
        /\ last_call[arm].processed
        /\ metrics[arm].feedback # ""
        /\ FeedbackCount(history, arm) > 0
        /\ FeedbackCount(history, Other(arm)) > 0
        /\ pending_state[Other(arm)] # None
        /\ calls[Other(arm)] >= MinHistory

----------------------------------------------------------------------------
(* Boundary behaviour, checked under SpecBand *)

\* every angle the side was given so far is strictly inside (C + h, E - h)
InBand(s) ==
    /\ calls[s] > 0
    /\ angle_range[s].lo > calibration.contracted_threshold + hysteresis_margin
    /\ angle_range[s].hi < calibration.extended_threshold - hysteresis_margin

\* C7 as stated: a side whose every angle is >= C - h is never credited
C7_BrushNeverCredits ==
    \A s \in Sides :
        (calls[s] > 0
         /\ angle_range[s].lo >= calibration.contracted_threshold - hysteresis_margin)
            => metrics[s].rep_count = 0

\* C7 amended: a side whose every angle is > C - h is never credited, and never
\* enters UP
C7_AboveBrushNeverCredits ==
    \A s \in Sides :
        (calls[s] > 0
         /\ angle_range[s].lo > calibration.contracted_threshold - hysteresis_margin)
            => (metrics[s].rep_count = 0 /\ metrics[s].stage # UP)

\* a side was fed angles one degree above C - h, and has left DOWN
C7_Witness ==
    \E s \in Sides :
        /\ angle_range[s].lo = calibration.contracted_threshold - hysteresis_margin + 1
        /\ metrics[s].stage # DOWN
        /\ calls[s] = scenario.max_calls

\* C8 as stated: in-band angles credit nothing and, once the frames of the run
\* have been processed, each a full state_hold_time after the one before, the
\* stage is MOVING_*; a MOVING_* stage is kept
C8_BandReachesMoving ==
    \A s \in Sides :
        InBand(s) =>
            /\ metrics[s].rep_count = 0
            /\ (calls[s] = scenario.max_calls
                /\ now = calls[s] * state_hold_time)
                  => metrics[s].stage \in {MOVING_UP, MOVING_DOWN}
            /\ last_call[s].before.stage \in {MOVING_UP, MOVING_DOWN}
                  => metrics[s].stage \in {MOVING_UP, MOVING_DOWN}

\* C8 amended: in-band angles credit nothing; the stage stays DOWN as long as no
\* frame confirms the change (the target held for state_hold_time, velocity
\* below 15), is MOVING_UP from the frame that does, and then stays MOVING_UP
C8_BandHoldsOrMovesUp ==
    \A s \in Sides :
        InBand(s) =>
            /\ metrics[s].rep_count = 0
            /\ metrics[s].stage \in {DOWN, MOVING_UP}
            /\ last_call[s].before.stage = MOVING_UP => metrics[s].stage = MOVING_UP
            /\ (last_call[s].processed /\ metrics[s].stage = DOWN) =>
                  \/ last_call[s].time - pending_state_start[s] < state_hold_time
                  \/ Velocity3(angle_history[s]) >= 3 * SettledVelocity

\* a side fed in-band angles only has gone to MOVING_UP and stayed there
C8_Witness ==
    \E s \in Sides :
        /\ InBand(s)
        /\ last_call[s].before.stage = MOVING_UP
        /\ metrics[s].stage = MOVING_UP
        /\ angle_range[s].lo # angle_range[s].hi

----------------------------------------------------------------------------
(* The literal scenarios, checked under SpecScenario *)

\* C6: the jitter 54, 56, 54, 56, ... at 30 fps for 2 s credits nothing and
\* changes the side's stage at most once
C6_JitterImmunity ==
    scenario.name = "jitter" =>
        /\ metrics[scenario.arm].rep_count = 0
        /\ stage_changes[scenario.arm] <= 1

\* the jitter has been replayed for its 2 s and the stage did change once
C6_Witness ==
    /\ Replayed("jitter")
    /\ calls[scenario.arm] = 60
    /\ stage_changes[scenario.arm] = 1

\* the other side of a scenario is as it was constructed
OtherSideUntouched ==
    /\ metrics[Other(scenario.arm)] = NewArmMetrics(0)
    /\ calls[Other(scenario.arm)] = 0

\* C10 as stated: the dropout scenario ends with exactly 1 right rep, the left
\* side untouched
C10_DropoutCreditsOne ==
    Replayed("dropout") =>
        /\ metrics["RIGHT"].rep_count = 1
        /\ metrics["LEFT"].rep_count = 0
        /\ metrics["LEFT"].stage = DOWN

\* C10 amended: the dropout scenario credits no right rep (the angle never
\* reaches C - h = 50, so the side never enters UP), the untracked frames
\* change nothing, and the left side is untouched
C10_DropoutCreditsNone ==
    scenario.name = "dropout" =>
        /\ metrics["RIGHT"].rep_count = 0
        /\ metrics["RIGHT"].stage # UP
        /\ metrics["LEFT"].rep_count = 0
        /\ metrics["LEFT"].stage = DOWN
        /\ OtherSideUntouched

\* the dropout scenario has been replayed to its end: 50 tracked frames
C10_Witness ==
    /\ Replayed("dropout")
    /\ calls["RIGHT"] = 50
    /\ frame = 60
    /\ stage_changes["RIGHT"] >= 1

\* C11: the slow curl (each of the 13 samples held for 12 frames at 30 fps)
\* credits exactly one right rep, and the left rep_count stays 0
C11_SlowCurlCreditsOne ==
    scenario.name = "slow curl" =>
        /\ metrics["RIGHT"].rep_count <= 1
        /\ metrics["LEFT"].rep_count = 0
        /\ Replayed("slow curl") => metrics["RIGHT"].rep_count = 1

\* the slow curl has been replayed to its end and its rep was credited on
\* leaving UP
C11_Witness ==
    /\ Replayed("slow curl")
    /\ calls["RIGHT"] = 12 * Len(CurlSamples)
    /\ Len(credit_log["RIGHT"]) = 1
    /\ metrics["RIGHT"].stage = DOWN

\* C12: the fast curl (the 13 samples one per frame at 30 fps) credits
\* nothing: the right rep_count and the left rep_count stay 0; the samples
\* at or below C - h = 50 last 3 frames, less than state_hold_time, so the
\* side never enters UP
C12_FastCurlNotCredited ==
    scenario.name = "fast curl" =>
        /\ metrics["RIGHT"].rep_count = 0
        /\ metrics["LEFT"].rep_count = 0
        /\ metrics["RIGHT"].stage # UP

\* the fast curl has been replayed to its end, every frame past the third
\* processed
C12_Witness ==
    /\ Replayed("fast curl")
    /\ calls["RIGHT"] = Len(CurlSamples)
    /\ last_call["RIGHT"].processed
    /\ angle_range["RIGHT"].lo <= calibration.contracted_threshold - hysteresis_margin

\* C13: a frame that has no angle for a side leaves that side's rep_count,
\* stage, pending state, pending start time and angle history as they were,
\* and credits it nothing (the side the script is not about has no angle on
\* any frame)
C13_LostFrameMutatesNothing ==
    [][\A s \in Sides :
          (frame' = frame + 1
             /\ (s # scenario.arm \/ ~scenario.script[frame'].tracked))
          => /\ metrics'[s].rep_count = metrics[s].rep_count
             /\ metrics'[s].stage = metrics[s].stage
             /\ pending_state'[s] = pending_state[s]
             /\ pending_state_start'[s] = pending_state_start[s]
             /\ angle_history'[s] = angle_history[s]
             /\ credit_log'[s] = credit_log[s]]_vars

\* the side was lost on the latest frame while a stage change was pending,
\* and the clock has moved on
C13_Witness ==
    /\ scenario.name = "lossy curl"
    /\ frame >= 1
    /\ ~scenario.script[frame].tracked
    /\ pending_state[scenario.arm] # None
    /\ Len(angle_history[scenario.arm]) >= MinHistory
    /\ now > last_call[scenario.arm].time

\* a process_rep call was made for side s
Called(s) == calls'[s] = calls[s] + 1

\* the call changed the stage of side s
StageChanged(s) == metrics'[s].stage # metrics[s].stage

\* the call of the step on side s was processed (the history holds at least
\* four angles) and its velocity is below the feedback velocity
FeedbackEvaluated(s) ==
    /\ calls'[s] = calls[s] + 1
    /\ Len(angle_history'[s]) >= MinHistory
    /\ Velocity3(angle_history'[s]) < 3 * FeedbackVelocity

\* C28: on a processed frame with velocity < 20, an angle below safe_angle_min
\* sets the side's feedback to Over Curling and an angle above safe_angle_max
\* sets it to Over Extending, and the side's feedback count grows by exactly 1
\* while the other side's count is unchanged (SpecForm)
C28_HardErrorsCounted ==
    [][\A s \in Sides :
          (FeedbackEvaluated(s)
             /\ (metrics'[s].angle < calibration.safe_angle_min
                 \/ metrics'[s].angle > calibration.safe_angle_max))
          => /\ metrics'[s].feedback =
                   IF metrics'[s].angle < calibration.safe_angle_min
                   THEN "Over Curling" ELSE "Over Extending"
             /\ FeedbackCount(history', s) = FeedbackCount(history, s) + 1
             /\ FeedbackCount(history', Other(s)) = FeedbackCount(history, Other(s))]_vars

\* the left side was told Over Extending on three frames
C28_Witness ==
    /\ last_call["LEFT"].processed
    /\ metrics["LEFT"].angle > calibration.safe_angle_max
    /\ metrics["LEFT"].feedback = "Over Extending"
    /\ FeedbackCount(history, "LEFT") = 3
    /\ FeedbackCount(history, "RIGHT") = 0

\* the call of the step on side s was processed and its velocity is the
\* feedback velocity or above it
InRapidMotion(s) ==
    /\ Called(s)
    /\ Len(angle_history'[s]) >= MinHistory
    /\ Velocity3(angle_history'[s]) >= 3 * FeedbackVelocity

\* C36: a processed frame with velocity >= 20 leaves the side's feedback
\* empty and both feedback counts as they were (SpecForm)
C36_NoFeedbackInRapidMotion ==
    [][\A s \in Sides :
          InRapidMotion(s) => /\ metrics'[s].feedback = ""
                              /\ history' = history]_vars

\* the right side, told Over Curling before, came back to 25 from 85 at a
\* velocity of exactly 20 and was told nothing
C36_Witness ==
    /\ last_call["RIGHT"].processed
    /\ last_call["RIGHT"].before.feedback = "Over Curling"
    /\ metrics["RIGHT"].angle = 25
    /\ Velocity3(angle_history["RIGHT"]) = 3 * FeedbackVelocity
    /\ metrics["RIGHT"].feedback = ""
    /\ FeedbackCount(history, "RIGHT") > 0

\* C37: after a processed frame with velocity < 20 the side's feedback is not
\* empty: it is Over Curling, Over Extending, Curl Higher, Extend Fully, or
\* else Maintain Form (SpecForm)
C37_FeedbackDefault ==
    [][\A s \in Sides :
          FeedbackEvaluated(s) =>
             /\ metrics'[s].feedback # ""
             /\ FormFeedback(metrics'[s].angle, metrics'[s].stage, calibration) = ""
                   => metrics'[s].feedback = "Maintain Form"]_vars

\* C29: a side whose feedback is Over Curling or Over Extending has the
\* feedback colour RED, and once feedback was evaluated on a frame of the side
\* its feedback colour is GREEN, YELLOW or RED (SpecForm)
C29_FeedbackColoured ==
    \A s \in Sides :
       /\ metrics[s].feedback \in {"Over Curling", "Over Extending"}
             => metrics[s].feedback_color = "RED"
       /\ (last_call[s].processed
             /\ Velocity3(angle_history[s]) < 3 * FeedbackVelocity)
             => metrics[s].feedback_color \in {"GREEN", "YELLOW", "RED"}

\* C30: for every whole angle 0..180, every C < E and every current stage,
\* _determine_target_state returns UP if angle <= C - h and DOWN if
\* angle >= E + h; otherwise from UP it returns UP while angle < C + h and
\* MOVING_DOWN else, from DOWN it returns DOWN while angle > E - h and
\* MOVING_UP else, from MOVING_UP it returns MOVING_UP and from MOVING_DOWN
\* MOVING_DOWN (SpecTarget)
C30_TargetStateFunction ==
    (call.name = "_determine_target_state" /\ call.returned # None
        /\ call.contracted < call.extended)
    => LET h == hysteresis_margin
           C == call.contracted
           E == call.extended
       IN  /\ call.angle <= C - h => call.returned = UP
           /\ call.angle >= E + h => call.returned = DOWN
           /\ (call.angle > C - h /\ call.angle < E + h) =>
                 /\ call.current_stage = UP =>
                       call.returned = IF call.angle < C + h THEN UP ELSE MOVING_DOWN
                 /\ call.current_stage = DOWN =>
                       call.returned = IF call.angle > E - h THEN DOWN ELSE MOVING_UP
                 /\ call.current_stage = MOVING_UP => call.returned = MOVING_UP
                 /\ call.current_stage = MOVING_DOWN => call.returned = MOVING_DOWN

\* between thresholds less than two margins apart, a call from MOVING_UP
\* returned MOVING_UP at an angle at which a call from UP returns UP and a
\* call from DOWN returns DOWN
C30_Witness ==
    /\ call.name = "_determine_target_state"
    /\ call.returned = MOVING_UP
    /\ call.current_stage = MOVING_UP
    /\ call.angle < call.contracted + hysteresis_margin
    /\ call.angle > call.extended - hysteresis_margin

\* C31: a process_rep call changes the side's stage exactly when the frame is
\* processed, the stage it proposes differs from the current one, the
\* processed frame before it proposed the same stage, the first of the
\* processed frames in a row that proposed it lies at least state_hold_time
\* back, and three times the velocity is below 3 * 15; the stage never
\* changes on the first frame that proposes it, nor on the processed frame
\* after one that changed it
C31_TemporalConfirmation ==
    [][\A s \in Sides : Called(s) =>
          LET c == last_call'[s]
              b == last_call[s]
          IN  /\ StageChanged(s) <=>
                    /\ c.processed
                    /\ c.target # metrics[s].stage
                    /\ b.target = c.target
                    /\ c.time - c.since >= state_hold_time
                    /\ Velocity3(angle_history'[s]) < 3 * SettledVelocity
              /\ StageChanged(s) => metrics'[s].stage = c.target
              /\ StageChanged(s) => b.processed /\ b.target = c.target
              /\ StageChanged(s) => b.before.stage = metrics[s].stage]_vars

\* a stage was confirmed on the frame that made the hold exactly
\* state_hold_time long
C31_Witness ==
    /\ scenario.name = "free"
    /\ \E s \in Sides :
          /\ last_call[s].processed
          /\ last_call[s].before.stage # metrics[s].stage
          /\ last_call[s].time - last_call[s].since = state_hold_time

\* C32: a call that changes the side's stage to DOWN restarts the timer the
\* rep duration is measured from (last_down_time), and the rep_time of a credit
\* is the time since the side last entered DOWN
C32_TimerRestartsOnDown ==
    [][\A s \in Sides : Called(s) =>
          /\ (StageChanged(s) /\ metrics'[s].stage = DOWN)
                => metrics'[s].last_down_time = now'
          /\ last_call'[s].credited
                => metrics'[s].rep_time = now' - last_call[s].entered_down]_vars

\* four times the quartile q (1 or 3) of the values: between the two values
\* of the sorted list around position q * (n - 1) / 4, in proportion
Quartile4(values, q) ==
    LET sorted == SortSeq(values, LAMBDA x, y : x < y)
        k == (q * (Len(values) - 1)) \div 4
        r == (q * (Len(values) - 1)) % 4
    IN  IF r = 0 THEN 4 * sorted[k + 1]
        ELSE 4 * sorted[k + 1] + r * (sorted[k + 2] - sorted[k + 1])

\* v lies inside [Q1 - 1.5 * IQR, Q3 + 1.5 * IQR]
Inlier(values, v) ==
    LET q1 == Quartile4(values, 1)
        q3 == Quartile4(values, 3)
    IN  /\ 2 * q1 - 3 * (q3 - q1) <= 8 * v
        /\ 8 * v <= 2 * q3 + 3 * (q3 - q1)

\* the fraction is the arithmetic mean of the values
IsMeanOf(fraction, values) ==
    fraction.num * Len(values) = Sum(values) * fraction.den

\* the samples of the spec's example
ExampleSamples == <<150, 151, 152, 149, 151, 40>>

\* C34: the robust average of a non-empty list is the mean of its inliers, and
\* of all its samples when they are fewer than 3; a list with no outlier gives
\* its mean; 150, 151, 152, 149, 151, 40 gives 150.6 = 753 / 5, the mean
\* without the 40
C34_RobustAverage ==
    (call.name = "_calculate_robust_average" /\ call.done /\ call.values # <<>>) =>
        LET values == call.values
            inliers == SelectSeq(values, LAMBDA v : Inlier(values, v))
        IN  /\ Len(values) < 3 => IsMeanOf(call.returned, values)
            /\ Len(values) >= 3 => IsMeanOf(call.returned, inliers)
            /\ (Len(values) >= 3 /\ inliers = values) => IsMeanOf(call.returned, values)
            /\ values = ExampleSamples =>
                  /\ inliers = <<150, 151, 152, 149, 151>>
                  /\ 5 * call.returned.num = 753 * call.returned.den

\* the example was averaged
C34_Witness ==
    /\ call.name = "_calculate_robust_average"
    /\ call.done
    /\ call.values = ExampleSamples

----------------------------------------------------------------------------
(* Claims about the pose pipeline, checked under SpecPose *)

\* C22: calculate_angle returns an angle in 0..180 for every triple, and
\* get_smoothed_angle returns a whole angle in 0..180 (the EMA itself staying
\* in that range) when the raw samples of the side are in 0..180
C22_AnglesInRange ==
    /\ (call.name = "calculate_angle" /\ call.done) => call.returned \in 0..180
    /\ \A s \in Sides :
          (\A i \in DOMAIN buffers[s] : buffers[s][i] \in 0..180)
          => /\ pose_log.returned[s].tracked => pose_log.returned[s].angle \in 0..180
             /\ ema[s].set => (0 <= ema[s].num /\ ema[s].num <= 180 * ema[s].den)

\* the left side showed a reflex angle, folded back to 90, and the straight
\* arm; its window is full and has dropped a sample, and the smoothed angle
\* lies strictly between the two
C22_Witness ==
    /\ scenario.name = "pose"
    /\ pose_log.frames = MaxPoseFrames
    /\ Len(buffers["LEFT"]) = smoothing_window
    /\ {buffers["LEFT"][i] : i \in DOMAIN buffers["LEFT"]} = {90, 180}
    /\ pose_log.returned["LEFT"].tracked
    /\ pose_log.returned["LEFT"].angle > 90
    /\ pose_log.returned["LEFT"].angle < 180

\* a landmark of side s has visibility < 0.6 on the frame
Gated(shown, s) == \E j \in 1..3 : shown.arms[s].visibility[j] < MinVisibility

\* C23: with the preset's index lists, a side with a landmark of visibility
\* < 0.6 gets None and its window and EMA are not updated; a frame without
\* pose landmarks gives None for both sides; and a side that is not gated gets
\* the smoothed angle of its own triple over its own window and EMA, whatever
\* the other side's visibilities
C23_VisibilityGating ==
    [][(pose_log'.frames = pose_log.frames + 1 /\ config = BicepCurl
           /\ pose_log'.shown.length = MaxLandmarks)
       => \A s \in Sides :
             /\ ~pose_log'.shown.detected => ~pose_log'.returned[s].tracked
             /\ Gated(pose_log'.shown, s)
                   => /\ ~pose_log'.returned[s].tracked
                      /\ buffers'[s] = buffers[s]
                      /\ ema'[s] = ema[s]
             /\ (pose_log'.shown.detected /\ ~Gated(pose_log'.shown, s))
                   => LET p == pose_log'.shown.arms[s].points
                          own == get_smoothed_angle([buffers |-> buffers, ema |-> ema], s,
                                                    calculate_angle(p[1], p[2], p[3]))
                      IN  /\ pose_log'.returned[s] = Tracked(own.returned)
                          /\ buffers'[s] = own.calc.buffers[s]
                          /\ ema'[s] = own.calc.ema[s]]_vars

\* the right side, seen before, has its wrist at visibility 0.59 on the
\* latest frame and gets None, while the left side gets an angle
C23_Witness ==
    /\ scenario.name = "pose"
    /\ config = BicepCurl
    /\ pose_log.shown.detected
    /\ pose_log.shown.arms["RIGHT"].visibility = <<100, 100, 59>>
    /\ ~pose_log.returned["RIGHT"].tracked
    /\ pose_log.returned["LEFT"].tracked
    /\ Len(buffers["RIGHT"]) = 1
    /\ Len(buffers["LEFT"]) = MaxGatedFrames

\* twice the median of the window: the middle sample of the sorted window, or
\* the sum of its two middle samples
WindowMedian2(window) ==
    LET sorted == SortSeq(window, LAMBDA x, y : x < y)
        n == Len(window)
    IN  IF n % 2 = 1 THEN 2 * sorted[(n + 1) \div 2]
        ELSE sorted[n \div 2] + sorted[n \div 2 + 1]

\* the window holds the last W raw samples, raw being the latest
WindowKept(before, after, raw) ==
    LET all == Append(before, raw)
    IN  after = SubSeq(all, IF Len(all) > smoothing_window
                            THEN Len(all) - smoothing_window + 1 ELSE 1, Len(all))

\* e <- alpha * m + (1 - alpha) * e with alpha = 1/2 and m = m2 / 2; e <- m
\* the first time.  The two fractions are compared over the denominator of
\* the new one when the old one's divides it.
EmaUpdated(before, after, m2) ==
    /\ after.set
    /\ IF ~before.set THEN 2 * after.num = m2 * after.den
       ELSE IF after.den % before.den = 0
       THEN 4 * after.num
               = (m2 * before.den + 2 * before.num) * (after.den \div before.den)
       ELSE 4 * before.den * after.num = (m2 * before.den + 2 * before.num) * after.den

\* r is an integer nearest to e
Nearest(r, e) ==
    /\ 2 * (r * e.den - e.num) <= e.den
    /\ 2 * (e.num - r * e.den) <= e.den

\* C35: on a frame that yields an angle for a side, the side's window is the
\* last W raw samples, its EMA is the median of the window the first time
\* and alpha * median + (1 - alpha) * EMA afterwards, and the angle returned
\* is the integer nearest to the EMA
C35_SmoothedAngleRounded ==
    [][(pose_log'.frames = pose_log.frames + 1 /\ config = BicepCurl
           /\ pose_log'.shown.length = MaxLandmarks)
       => \A s \in Sides :
             pose_log'.returned[s].tracked
                => LET p == pose_log'.shown.arms[s].points
                   IN  /\ WindowKept(buffers[s], buffers'[s],
                                     calculate_angle(p[1], p[2], p[3]))
                       /\ EmaUpdated(ema[s], ema'[s], WindowMedian2(buffers'[s]))
                       /\ Nearest(pose_log'.returned[s].angle, ema'[s])]_vars

\* side s's triple cannot be read on the frame: its index list is missing or
\* does not hold three indices, or an index is beyond the frame's landmarks
Unreadable(cfg, shown, s) ==
    LET indices == IF s = "RIGHT" THEN cfg.right_landmarks ELSE cfg.left_landmarks
    IN  \/ ~indices.list
        \/ Len(indices.items) # 3
        \/ \E j \in DOMAIN indices.items : indices.items[j] >= shown.length

\* C24: get_both_arm_angles raises no exception, and a side whose triple
\* cannot be read gets None
C24_NeverPropagates ==
    pose_log.frames > 0
    => /\ pose_log.raised = ""
       /\ \A s \in Sides :
             Unreadable(config, pose_log.shown, s) => ~pose_log.returned[s].tracked

----------------------------------------------------------------------------
(* The calibration protocol: the session starts the calibration and hands   *)
(* CalibrationManager.process_frame one frame after the other.  On a frame  *)
(* the body is not detected, or one side is hidden, or both sides show the  *)
(* angle the user holds in the phase.                                       *)

\* bounds of the calibration runs
MaxSamples == 21
MaxHolds == 3

MaxCalibrationTime == MaxHolds * hold_time

\* the input of a calibration run: the angles the user holds in the two
\* phases, the side that a "hidden" frame hides, the conditions the frames may
\* show, and the time steps between frames
Posture(extended, contracted, hidden, conditions, steps) ==
    [name |-> "calibration", arm |-> hidden,
     extended |-> [s \in Sides |-> IF s = "RIGHT" THEN extended[1] ELSE extended[2]],
     contracted |-> [s \in Sides |-> IF s = "RIGHT" THEN contracted[1] ELSE contracted[2]],
     conditions |-> conditions, steps |-> steps]

\* a side is hidden on some frames, the frames carrying the timestamp of the
\* previous one or coming a hold time later; or the body is not detected on
\* some frames, the frames coming half a hold time or a hold time apart
Postures ==
    {Posture(<<170, 172>>, <<40, 38>>, hidden, {"visible", "hidden"}, {0, hold_time}) :
        hidden \in Sides}
    \cup {Posture(<<170, 172>>, <<40, 38>>, "LEFT", {"visible", "not detected"},
                  {hold_time \div 2, hold_time})}

\* the results of the pose detection on a frame of the given condition
\* ("not detected", "hidden" or "visible")
Results(condition) ==
    LET held == IF calibration.phase = EXTEND THEN scenario.extended
                ELSE scenario.contracted
    IN  [pose_landmarks |-> condition # "not detected",
         arms |-> [s \in Sides |->
                     IF condition = "hidden" /\ s = scenario.arm THEN Untracked
                     ELSE Tracked(held[s])]]

\* the buffers of the phase the calibration is in
PhaseSamples(data) ==
    IF data.phase = EXTEND THEN data.extended_angles ELSE data.contracted_angles

InitCalibration ==
    /\ Constructed
    /\ calibration = DefaultCalibration
    /\ scenario \in Postures

\* the session enters CALIBRATION: CalibrationManager.start()
StartCalibration ==
    /\ calibration.phase = None
    /\ calibration' = start(calibration, now)
    /\ calibration_log' =
          [NoCalibrationCall EXCEPT !.issued = {calibration'.message}]
    /\ UNCHANGED <<repVars, now, obsVars, scenVars, restVars>>

\* what a process_frame call is recorded to have been given and to have done
ObservedCalibration(condition, returned) ==
    [called |-> TRUE, returned |-> returned, condition |-> condition,
     issued |-> IF calibration'.phase # calibration.phase
                   \/ calibration'.active # calibration.active
                THEN {calibration'.message}
                ELSE calibration_log.issued \cup {calibration'.message},
     adverse |-> calibration_log.adverse]

ObserveCalibration(condition, returned) ==
    calibration_log' = ObservedCalibration(condition, returned)

\* a frame d ticks after the previous one is handed to process_frame
CalibrationFrame(condition, d) ==
    /\ calibration.phase # None
    /\ now + d <= MaxCalibrationTime
    /\ \A s \in Sides :
          get_both_arm_angles(Results(condition))[s].tracked
              => Len(PhaseSamples(calibration)[s]) < MaxSamples
    /\ now' = now + d
    /\ \E r \in {process_frame(calibration, Results(condition), now')} :
          /\ calibration' = r.data
          /\ ObserveCalibration(condition, r.returned)
    /\ UNCHANGED <<repVars, obsVars, scenVars, restVars>>

NextCalibration ==
    \/ StartCalibration
    \/ \E condition \in scenario.conditions : \E d \in scenario.steps :
          CalibrationFrame(condition, d)

SpecCalibration == InitCalibration /\ [][NextCalibration]_vars

\* SpecRecalibration: the calibration protocol, followed by frames of the
\* workout that hand the hidden side's angle to RepCounter.process_rep, and
\* by a second calibration started over the thresholds of the first
MaxActiveCalls == 4

\* the session enters CALIBRATION again: CalibrationManager.start()
Recalibrate ==
    /\ ~calibration.active
    /\ calibration.phase # None
    /\ calibration' = start(calibration, now)
    /\ calibration_log' =
          [NoCalibrationCall EXCEPT !.issued = {calibration'.message}]
    /\ UNCHANGED <<repVars, now, obsVars, scenVars, restVars>>

\* a frame of the workout, state_hold_time after the previous frame, on which
\* side arm shows angle
ActiveFrame(arm, angle) ==
    /\ ~calibration.active
    /\ calibration.phase # None
    /\ calls[arm] < MaxActiveCalls
    /\ now' = now + state_hold_time
    /\ process_rep(arm, angle, now')
    /\ Observe(arm, angle)
    /\ UNCHANGED <<calVars, scenVars, restVars>>

NextRecalibration ==
    \/ NextCalibration
    \/ Recalibrate
    \/ \E angle \in {scenario.contracted[scenario.arm], scenario.extended[scenario.arm]} :
          ActiveFrame(scenario.arm, angle)

SpecRecalibration == InitCalibration /\ [][NextRecalibration]_vars

\* SpecStages: the workout after a calibration in which both arms showed 98
\* when extended and 42 when curled, which leaves the thresholds 50 and 90:
\* the contracted zone ends at 45, the extended zone begins at 95, and a side
\* fed 45, 70 and 95 on frames state_hold_time apart passes from any zone to
\* any other at a settled velocity.  50 and 90 lie within the margin of a
\* threshold, where UP and DOWN are kept but not entered.
MaxCallsStages == 9

StagesAlphabets ==
    {[OneSide(e.arm, e.angles) EXCEPT !.max_calls = MaxCallsStages] :
        e \in {[arm |-> "RIGHT", angles |-> {45, 70, 95}],
                [arm |-> "LEFT", angles |-> {45, 50, 95}],
                [arm |-> "RIGHT", angles |-> {45, 90, 95}]}}

StagesCalibration ==
    _finalize_calibration(
        [DefaultCalibration EXCEPT
            !.active = TRUE, !.phase = CONTRACT, !.phase_start_time = hold_time,
            !.message = MsgCurlHold,
            !.extended_angles = [s \in Sides |-> Repeat(98, min_samples)],
            !.contracted_angles = [s \in Sides |-> Repeat(42, min_samples)]])

InitStages ==
    /\ Constructed
    /\ calibration = StagesCalibration
    /\ scenario \in StagesAlphabets

\* a frame state_hold_time after the previous one on which side arm shows angle
SteadyFrame(arm, angle) ==
    /\ calls[arm] < scenario.max_calls
    /\ now' = now + state_hold_time
    /\ process_rep(arm, angle, now')
    /\ Observe(arm, angle)
    /\ UNCHANGED <<calVars, scenVars, restVars>>

NextStages ==
    \E arm \in Sides : \E angle \in scenario.angles[arm] : SteadyFrame(arm, angle)

SpecStages == InitStages /\ [][NextStages]_vars

\* SpecCompletes: frames keep arriving a quarter of a hold time apart, so
\* that a hold time is over after four frames and min_samples frames take five
\* hold times.  Up to MaxAdverse of the frames do not show both sides: the
\* body is not detected, or the left side is hidden.  A frame that shows both
\* sides is always due (weak fairness); frames stop arriving at
\* MaxCompletionTime.
MaxAdverse == 3
MaxCompletionHolds == 14

MaxCompletionTime == MaxCompletionHolds * hold_time

SlowFramePeriod == hold_time \div 4

InitCompletes ==
    /\ Constructed
    /\ calibration = DefaultCalibration
    /\ scenario = Posture(<<170, 172>>, <<40, 38>>, "LEFT",
                          {"visible", "hidden", "not detected"}, {SlowFramePeriod})

\* a frame SlowFramePeriod after the previous one is handed to process_frame
ArrivingFrame(condition) ==
    /\ calibration.phase # None
    /\ now + SlowFramePeriod <= MaxCompletionTime
    /\ condition # "visible" => calibration_log.adverse < MaxAdverse
    /\ now' = now + SlowFramePeriod
    /\ \E r \in {process_frame(calibration, Results(condition), now')} :
          /\ calibration' = r.data
          /\ calibration_log' =
                [ObservedCalibration(condition, r.returned) EXCEPT
                    !.adverse = IF condition = "visible" THEN @ ELSE @ + 1]
    /\ UNCHANGED <<repVars, obsVars, scenVars, restVars>>

NextCompletes ==
    \/ StartCalibration
    \/ \E condition \in scenario.conditions : ArrivingFrame(condition)

SpecCompletes ==
    /\ InitCompletes
    /\ [][NextCompletes]_vars
    /\ WF_vars(StartCalibration)
    /\ WF_vars(ArrivingFrame("visible"))

\* SpecTiming: with the default thresholds, a side is fed 45 and 60 on frames
\* state_hold_time apart, long enough for two reps of different durations.
MaxCallsTiming == 15

InitTiming ==
    /\ Constructed
    /\ calibration = DefaultCalibration
    /\ scenario = [OneSide("LEFT", {45, 60}) EXCEPT !.max_calls = MaxCallsTiming]

SpecTiming == InitTiming /\ [][NextStages]_vars

----------------------------------------------------------------------------
(* Finalization: the calibration is one frame short of finalizing.  The      *)
(* extended buffers are full, the contracted buffers lack one sample, and    *)
(* the hold time of the CONTRACT phase, entered at time hold_time, is over   *)
(* on the next frame.                                                        *)

\* n samples, the last m of them b and the others a
Samples(bucket, n) ==
    Repeat(bucket.a, n - bucket.m) \o Repeat(bucket.b, bucket.m)

Bucket(a, b, m) == [a |-> a, b |-> b, m |-> m]

\* what the sides have shown during EXTEND: a steady angle, two outliers, a
\* drift between two angles
ExtendedRight ==
    {Bucket(170, 170, 0), Bucket(100, 100, 0), Bucket(180, 90, 2), Bucket(170, 160, 10)}
ExtendedLeft == {Bucket(170, 170, 0), Bucket(100, 100, 0), Bucket(172, 171, 7)}

\* what the sides have shown during CONTRACT
ContractedRight ==
    {Bucket(0, 0, 0), Bucket(40, 40, 0), Bucket(90, 90, 0), Bucket(114, 114, 0),
     Bucket(115, 115, 0), Bucket(124, 124, 0), Bucket(125, 125, 0), Bucket(40, 60, 9)}
ContractedLeft ==
    {Bucket(0, 0, 0), Bucket(38, 38, 0), Bucket(2, 120, 1), Bucket(38, 39, 6)}

InitFinalize ==
    /\ ConstructedCounter
    /\ ConstructedRest
    /\ now = hold_time
    /\ \E er \in ExtendedRight, el \in ExtendedLeft,
          cr \in ContractedRight, cl \in ContractedLeft :
          /\ scenario = Posture(<<er.a, el.a>>, <<cr.a, cl.a>>, "LEFT",
                                {"visible"}, {hold_time})
          /\ calibration =
                [DefaultCalibration EXCEPT
                    !.active = TRUE, !.phase = CONTRACT,
                    !.phase_start_time = hold_time, !.message = MsgCurlHold,
                    !.extended_angles =
                        [s \in Sides |-> IF s = "RIGHT" THEN Samples(er, min_samples)
                                         ELSE Samples(el, min_samples)],
                    !.contracted_angles =
                        [s \in Sides |-> IF s = "RIGHT" THEN Samples(cr, min_samples - 1)
                                         ELSE Samples(cl, min_samples - 1)]]
    /\ calibration_log =
          [called |-> TRUE, returned |-> FALSE, condition |-> "visible",
           issued |-> {MsgCurlHold}, adverse |-> 0]

NextFinalize ==
    \E condition \in scenario.conditions : \E d \in scenario.steps :
        CalibrationFrame(condition, d)

SpecFinalize == InitFinalize /\ [][NextFinalize]_vars

\* the calibration has finalized
Finalized == calibration.phase = CONTRACT /\ ~calibration.active

----------------------------------------------------------------------------
(* The session in its host.  generate_video_frames runs the frame loop in   *)
(* the thread of the /video_feed request; handle_stop_session runs in the   *)
(* thread SocketIO (async_mode='threading') gives the stop_session event.   *)
(* Nothing orders the steps of the two threads.  WorkoutSession itself is   *)
(* modelled from its description: start enters CALIBRATION; process_frame   *)
(* obtains the landmarks, then acts by phase (CALIBRATION: delegate to      *)
(* CalibrationManager and on completion enter COUNTDOWN; COUNTDOWN: enter   *)
(* ACTIVE once the countdown is over; ACTIVE: process_rep for each side     *)
(* with an angle), then returns continue = (phase # INACTIVE); stop enters  *)
(* INACTIVE and resets the metrics and the history; get_final_report gives  *)
(* each side's total_reps and error_count.                                  *)

\* bound of the session runs: the frames handled in ACTIVE
MaxSessionFrames == 12

\* the frames held in one posture during ACTIVE
PostureFrames == 4

\* the time between two frames: the calibration gets min_samples samples in
\* hold_time
FramePeriod == hold_time \div min_samples

\* the positions of the frame loop inside process_frame
InFrame == {"dispatch", "advance", "RIGHT", "LEFT", "return"}

\* the angle side arm shows on the frame of ACTIVE being handled: the user
\* alternates between the two postures of the calibration
SessionAngle(arm) ==
    IF ((loop.frames - 1) \div PostureFrames) % 2 = 1
    THEN scenario.contracted[arm] ELSE scenario.extended[arm]

InitSession ==
    /\ Constructed
    /\ calibration = DefaultCalibration
    /\ scenario = [Posture(<<170, 172>>, <<40, 38>>, "LEFT", {"visible"}, {FramePeriod})
                      EXCEPT !.name = "session"]

\* WorkoutSession.start: the session enters CALIBRATION
StartSession ==
    /\ phase = INACTIVE
    /\ loop.pc = "idle"
    /\ stopper.pc = "idle"
    /\ phase' = CALIBRATION
    /\ calibration' = start(calibration, now)
    /\ calibration_log' = [NoCalibrationCall EXCEPT !.issued = {calibration'.message}]
    /\ UNCHANGED <<repVars, now, obsVars, scenVars, call, poseVars,
                   countdown_start, loop, stopper, host>>

\* a step of the frame loop that moves it to position pc and touches the
\* loop only
LoopStep(pc) ==
    /\ loop' = [loop EXCEPT !.pc = pc]
    /\ UNCHANGED <<calVars, repVars, now, obsVars, scenVars, call, poseVars,
                   phase, countdown_start, stopper, host>>

\* /video_feed is requested: generate_video_frames starts
VideoFeed == loop.pc = "idle" /\ phase # INACTIVE /\ LoopStep("test")

\* while workout_session.phase != WorkoutPhase.INACTIVE
LoopTest ==
    /\ loop.pc = "test"
    /\ LoopStep(IF phase # INACTIVE THEN "enter" ELSE "done")

\* process_frame is called: it obtains the frame, the time and the landmarks
EnterFrame ==
    /\ loop.pc = "enter"
    /\ loop.frames < MaxSessionFrames
    /\ now' = now + FramePeriod
    /\ loop' = [loop EXCEPT !.pc = "dispatch"]
    /\ UNCHANGED <<calVars, repVars, obsVars, scenVars, call, poseVars,
                   phase, countdown_start, stopper, host>>

\* process_frame acts by the phase it finds
Dispatch ==
    /\ loop.pc = "dispatch"
    /\ IF phase = CALIBRATION
       THEN \E r \in {process_frame(calibration, Results("visible"), now)} :
               /\ calibration' = r.data
               /\ ObserveCalibration("visible", r.returned)
               /\ loop' = [loop EXCEPT !.pc = "advance", !.branch = phase,
                                       !.completed = r.returned]
       ELSE /\ loop' = [loop EXCEPT
                          !.pc = IF phase = COUNTDOWN THEN "advance"
                                 ELSE IF phase = ACTIVE THEN "RIGHT" ELSE "return",
                          !.branch = phase,
                          !.completed = (phase = COUNTDOWN
                                         /\ now - countdown_start >= WORKOUT_COUNTDOWN_TIME),
                          !.frames = IF phase = ACTIVE THEN @ + 1 ELSE @]
            /\ UNCHANGED calVars
    /\ UNCHANGED <<repVars, now, obsVars, scenVars, call, poseVars,
                   phase, countdown_start, stopper, host>>

\* on completion of the calibration the session enters COUNTDOWN and stores
\* the countdown start; at the end of the countdown it enters ACTIVE
Advance ==
    /\ loop.pc = "advance"
    /\ phase' = IF ~loop.completed THEN phase
                ELSE IF loop.branch = CALIBRATION THEN COUNTDOWN ELSE ACTIVE
    /\ countdown_start' = IF loop.completed /\ loop.branch = CALIBRATION THEN now
                          ELSE countdown_start
    /\ loop' = [loop EXCEPT !.pc = "return"]
    /\ UNCHANGED <<calVars, repVars, now, obsVars, scenVars, call, poseVars, stopper, host>>

\* in ACTIVE, process_rep is called for the right side, then for the left
ProcessSide(arm) ==
    /\ loop.pc = arm
    /\ now' = now
    /\ process_rep(arm, SessionAngle(arm), now')
    /\ Observe(arm, SessionAngle(arm))
    /\ loop' = [loop EXCEPT !.pc = IF arm = "RIGHT" THEN "LEFT" ELSE "return"]
    /\ UNCHANGED <<calVars, scenVars, call, poseVars,
                   phase, countdown_start, stopper, host>>

\* process_frame returns continue = (phase # INACTIVE); the loop breaks if
\* not should_continue
ReturnFrame ==
    /\ loop.pc = "return"
    /\ LoopStep(IF phase # INACTIVE THEN "emit" ELSE "done")

\* socketio.emit('workout_update', ...), socketio.sleep(0.01) and the yield
EmitUpdate == loop.pc = "emit" /\ LoopStep("test")

\* a step of handle_stop_session that touches the handler only
StopStep(next) ==
    /\ stopper' = next
    /\ UNCHANGED <<calVars, repVars, now, obsVars, scenVars, call, poseVars,
                   phase, countdown_start, loop, host>>

\* a stop_session event arrives during a session; persist: the event names
\* an email and the sessions collection is there
StopRequested(persist) ==
    /\ stopper.pc = "idle"
    /\ phase # INACTIVE
    /\ loop.pc # "idle"
    /\ StopStep([stopper EXCEPT !.pc = "report", !.persist = persist])

\* report = workout_session.get_final_report()
TakeReport ==
    /\ stopper.pc = "report"
    /\ StopStep([stopper EXCEPT !.pc = "stop",
                    !.summary = [s \in Sides |->
                                   [total_reps |-> metrics[s].rep_count,
                                    error_count |-> FeedbackCount(history, s)]]])

\* workout_session.stop(): the session enters INACTIVE and resets the
\* metrics and the history
StopSession ==
    /\ stopper.pc = "stop"
    /\ phase' = INACTIVE
    /\ metrics' = [s \in Sides |-> NewArmMetrics(now)]
    /\ history' = NewSessionHistory
    /\ UNCHANGED <<angle_history, pending_state, pending_state_start, rep_start_time>>
    /\ stopper' = [stopper EXCEPT !.pc = "persist",
                      !.at_stop = [s \in Sides |->
                                     [total_reps |-> metrics[s].rep_count,
                                      error_count |-> FeedbackCount(history, s)]]]
    /\ UNCHANGED <<calVars, now, obsVars, scenVars, call, poseVars,
                   countdown_start, loop, host>>

\* the session document of handle_stop_session
session_doc(report) ==
    [total_reps |-> report["RIGHT"].total_reps + report["LEFT"].total_reps,
     right_reps |-> report["RIGHT"].total_reps,
     left_reps |-> report["LEFT"].total_reps,
     total_errors |-> report["RIGHT"].error_count + report["LEFT"].error_count]

\* if user_email and sessions_collection is not None: insert_one(session_doc)
Persist ==
    /\ stopper.pc = "persist"
    /\ stopper' = [stopper EXCEPT !.pc = "emit"]
    /\ host' = IF stopper.persist
               THEN [host EXCEPT !.sessions = Append(@, session_doc(stopper.summary))]
               ELSE host
    /\ UNCHANGED <<calVars, repVars, now, obsVars, scenVars, call, poseVars,
                   phase, countdown_start, loop>>

\* emit('session_stopped', {'status': 'success'})
EmitStopped ==
    /\ stopper.pc = "emit"
    /\ stopper' = [stopper EXCEPT !.pc = "done"]
    /\ host' = [host EXCEPT !.session_stopped = TRUE]
    /\ UNCHANGED <<calVars, repVars, now, obsVars, scenVars, call, poseVars,
                   phase, countdown_start, loop>>

\* get_final_report, stop or insert_one raises: except Exception prints
StopFails ==
    /\ stopper.pc \in {"report", "stop"} \/ (stopper.pc = "persist" /\ stopper.persist)
    /\ StopStep([stopper EXCEPT !.pc = "failed"])

NextSession ==
    \/ StartSession
    \/ VideoFeed
    \/ LoopTest
    \/ EnterFrame
    \/ Dispatch
    \/ Advance
    \/ \E arm \in Sides : ProcessSide(arm)
    \/ ReturnFrame
    \/ EmitUpdate
    \/ \E persist \in BOOLEAN : StopRequested(persist)
    \/ TakeReport
    \/ StopSession
    \/ Persist
    \/ EmitStopped
    \/ StopFails

SpecSession == InitSession /\ [][NextSession]_vars

----------------------------------------------------------------------------
(* Claims about the calibration protocol, checked under SpecCalibration *)

\* the four thresholds
ThresholdsOf(data) ==
    [extended_threshold |-> data.extended_threshold,
     contracted_threshold |-> data.contracted_threshold,
     safe_angle_min |-> data.safe_angle_min,
     safe_angle_max |-> data.safe_angle_max]

\* C14: the phase changes from EXTEND to CONTRACT on a frame only if elapsed >=
\* hold_time and both sides' extended buffers hold at least min_samples
\* samples; the calibration finalizes (process_frame returns True while
\* active) only if the phase is CONTRACT, elapsed >= hold_time and both
\* sides' contracted buffers hold at least min_samples samples
C14_AdvancesOnFullHoldOnly ==
    [][/\ (calibration.phase = EXTEND /\ calibration'.phase # EXTEND)
          => /\ calibration'.phase = CONTRACT
             /\ now' - calibration.phase_start_time >= hold_time
             /\ \A s \in Sides : Len(calibration'.extended_angles[s]) >= min_samples
       /\ (calibration.active /\ (calibration_log'.returned \/ ~calibration'.active))
          => /\ calibration_log'.returned
             /\ ~calibration'.active
             /\ calibration.phase = CONTRACT
             /\ now' - calibration.phase_start_time >= hold_time
             /\ \A s \in Sides : Len(calibration'.contracted_angles[s]) >= min_samples
             /\ \A s \in Sides : Len(calibration'.extended_angles[s]) >= min_samples]_vars

\* the calibration went through both phases and has finalized, one side
\* having been hidden on some frames
C14_Witness ==
    /\ Finalized
    /\ calibration_log.returned
    /\ calibration.message = MsgComplete
    /\ \E s \in Sides :
          Len(calibration.extended_angles[s]) > Len(calibration.extended_angles[Other(s)])

\* C21: the four thresholds change only on the step on which the calibration
\* finalizes: no other calibration frame, no start (with its reset) and no
\* process_rep call changes them (SpecRecalibration)
C21_ThresholdsSingleWriter ==
    [][ThresholdsOf(calibration') # ThresholdsOf(calibration)
          => /\ calibration.active
             /\ calibration.phase = CONTRACT
             /\ ~calibration'.active
             /\ calibration_log'.called
             /\ calibration_log'.returned
             /\ calls' = calls]_vars

\* a second calibration runs over the thresholds the first one derived, and
\* process_rep has processed a frame of the workout in between
C21_Witness ==
    /\ calibration.active
    /\ calibration_log.called
    /\ ThresholdsOf(calibration) # ThresholdsOf(DefaultCalibration)
    /\ last_call[scenario.arm].processed

\* on the step, the hold time of the phase has elapsed and a side has fewer
\* than min_samples samples of the phase, the frame's own sample counted
InsufficientSamples ==
    /\ calibration.active
    /\ calibration_log'.called
    /\ now' - calibration.phase_start_time >= hold_time
    /\ \E s \in Sides :
          Len(PhaseSamples([calibration' EXCEPT !.phase = calibration.phase])[s])
              < min_samples

\* on the step, the insufficient samples are recovered locally
RecoveredLocally ==
    /\ calibration'.phase = calibration.phase
    /\ calibration'.active
    /\ calibration'.phase_start_time = now'
    /\ calibration'.message = MsgHoldLonger
    /\ \A s \in Sides :
          /\ Len(calibration'.extended_angles[s]) >= Len(calibration.extended_angles[s])
          /\ SubSeq(calibration'.extended_angles[s], 1,
                    Len(calibration.extended_angles[s])) = calibration.extended_angles[s]
          /\ Len(calibration'.contracted_angles[s]) >= Len(calibration.contracted_angles[s])
          /\ SubSeq(calibration'.contracted_angles[s], 1,
                    Len(calibration.contracted_angles[s])) = calibration.contracted_angles[s]
    /\ ThresholdsOf(calibration') = ThresholdsOf(calibration)
    /\ ~calibration_log'.returned

\* C15 as stated: whenever a phase's hold time has elapsed but a side has
\* fewer than min_samples samples, the phase stays the same, phase_start_time
\* is reset to the current time, the message becomes the hold-longer prompt,
\* the samples are kept, the thresholds are unchanged and process_frame
\* returns False
C15_InsufficientSamplesRecovered ==
    [][InsufficientSamples => RecoveredLocally]_vars

\* C15 amended: the same on a frame on which the body is detected; a frame
\* on which it is not detected changes the message only, to the not-detected
\* prompt, and returns False
C15_InsufficientSamplesRecoveredIfDetected ==
    [][InsufficientSamples =>
          IF calibration_log'.condition # "not detected" THEN RecoveredLocally
          ELSE /\ calibration' = [calibration EXCEPT !.message = MsgNotDetected]
               /\ ~calibration_log'.returned]_vars

\* a frame on which the body is detected has found the hold time over and the
\* samples too few: the timer was reset and the samples are still there
C15_Witness ==
    /\ calibration.active
    /\ calibration_log.condition # "not detected"
    /\ calibration.message = MsgHoldLonger
    /\ calibration.phase_start_time = now
    /\ now >= hold_time
    /\ \E s \in Sides :
          /\ Len(PhaseSamples(calibration)[s]) > 0
          /\ Len(PhaseSamples(calibration)[s]) < min_samples

\* C20: a frame on which neither the phase nor the condition of the frame
\* (body not detected, a side hidden, both sides visible) changed does not
\* switch the message to a prompt already issued in the phase
C20_PromptsDoNotRepeat ==
    [][(/\ calibration.active
        /\ calibration_log.called
        /\ calibration_log'.condition = calibration_log.condition
        /\ calibration'.phase = calibration.phase
        /\ calibration'.active
        /\ calibration'.message # calibration.message)
       => calibration'.message \notin calibration_log.issued]_vars

----------------------------------------------------------------------------
(* Claims about finalization, checked under SpecFinalize.  The buffers are  *)
(* kept when the calibration finalizes, so the thresholds the samples give  *)
(* can be derived again in the finalized state.                             *)

\* the range of the thresholds the collected samples give
DerivedRange ==
    DerivedThresholds(calibration).extended_threshold
        - DerivedThresholds(calibration).contracted_threshold

\* the thresholds are those the samples give
KeptAsCalibrated == ThresholdsOf(calibration) = DerivedThresholds(calibration)

\* the thresholds are the defaults 50 / 160 / 30 / 175
FellBack == ThresholdsOf(calibration) = ThresholdsOf(DefaultCalibration)

\* C16: after finalization safe_angle_min <= contracted_threshold and
\* safe_angle_max >= extended_threshold, whatever the samples
C16_SafeRangeHoldsThresholds ==
    Finalized =>
        /\ calibration.safe_angle_min <= calibration.contracted_threshold
        /\ calibration.safe_angle_max >= calibration.extended_threshold

\* the greatest integer not above average + k
Floor(average, k) ==
    CHOOSE e \in -200..200 :
        /\ e * average.den <= average.num + k * average.den
        /\ average.num + k * average.den < (e + 1) * average.den

\* the lower of the two sides' robust averages of the EXTEND samples
ExtendedAverage ==
    MinAverage(_calculate_robust_average(calibration.extended_angles["RIGHT"]),
               _calculate_robust_average(calibration.extended_angles["LEFT"]))

\* the higher of the two sides' robust averages of the CONTRACT samples
ContractedAverage ==
    MaxAverage(_calculate_robust_average(calibration.contracted_angles["RIGHT"]),
               _calculate_robust_average(calibration.contracted_angles["LEFT"]))

\* C33: after a finalization whose derived range is 40 or more,
\* extended_threshold = floor(min of the extended averages - 8),
\* contracted_threshold = floor(max of the contracted averages + 8),
\* safe_angle_min = max(15, contracted_threshold - 15), safe_angle_max =
\* min(175, extended_threshold + 15); and any finalization leaves active False
C33_ThresholdsDerived ==
    /\ calibration_log.returned => ~calibration.active
    /\ Finalized =>
          \E e \in {Floor(ExtendedAverage, -8)}, c \in {Floor(ContractedAverage, 8)} :
             e - c >= 40 =>
                /\ calibration.extended_threshold = e
                /\ calibration.contracted_threshold = c
                /\ calibration.safe_angle_min = (IF c - 15 >= 15 THEN c - 15 ELSE 15)
                /\ calibration.safe_angle_max = (IF e + 15 <= 175 THEN e + 15 ELSE 175)

\* the calibration has finalized on samples whose two deciding averages are
\* no whole numbers and lie 40 or more apart
C33_Witness ==
    /\ Finalized
    /\ calibration_log.returned
    /\ ExtendedAverage.num % ExtendedAverage.den # 0
    /\ ContractedAverage.num % ContractedAverage.den # 0
    /\ Floor(ExtendedAverage, -8) - Floor(ContractedAverage, 8) >= 40
    /\ calibration.extended_threshold # 160

\* C17: contracted_threshold < extended_threshold before any calibration, while
\* it runs and after any finalization, and after finalization
\* extended_threshold - contracted_threshold >= 30
C17_ThresholdsOrdered ==
    /\ calibration.contracted_threshold < calibration.extended_threshold
    /\ Finalized =>
          calibration.extended_threshold - calibration.contracted_threshold >= 30

\* the calibration has finalized on samples whose extended average is below
\* their contracted average
C17_Witness ==
    /\ Finalized
    /\ calibration_log.returned
    /\ DerivedRange < 0

\* C18: when the thresholds derived at finalization have too small a range,
\* the thresholds fall back to 50 / 160 / 30 / 175 and after finalization
\* calibration.message is the message with the word WARNING
C18_DegenerateRomWarns ==
    (Finalized /\ DerivedRange < 30) =>
        /\ FellBack
        /\ calibration.message = MsgWarning

\* C19 as stated: the thresholds fall back to the defaults exactly when the
\* derived range is below 30, and are kept as calibrated otherwise
C19_FallbackBelow30 ==
    Finalized => IF DerivedRange < 30 THEN FellBack ELSE KeptAsCalibrated

\* C19 amended: the thresholds fall back to the defaults exactly when the
\* derived range is below 40, and are kept as calibrated otherwise
C19_FallbackBelow40 ==
    Finalized =>
        /\ IF DerivedRange < 40 THEN FellBack ELSE KeptAsCalibrated
        /\ FellBack # KeptAsCalibrated

\* the calibration has finalized on samples that give a range of 30 to 39
\* degrees
C19_Witness ==
    /\ Finalized
    /\ DerivedRange >= 30
    /\ DerivedRange < 40
    /\ FellBack

----------------------------------------------------------------------------
(* Claims about the session in its host, checked under SpecSession *)

\* the step is the stop() of handle_stop_session
Stopping == stopper.pc = "stop" /\ stopper'.pc = "persist"

\* C25: stop() never executes while the frame loop is inside a process_frame
\* call, and inside a call only the call itself changes the phase and the
\* metrics
C25_StopAtFrameBoundary ==
    [][/\ Stopping => loop.pc \notin InFrame
       /\ (loop.pc \in InFrame /\ loop'.pc = loop.pc)
             => (phase' = phase /\ metrics' = metrics)]_vars

\* C26: the phase changes only from INACTIVE to CALIBRATION by start, from
\* CALIBRATION to COUNTDOWN on the frame that finalizes the calibration, from
\* COUNTDOWN to ACTIVE when the countdown is over, and to INACTIVE by stop;
\* a rep is credited only while the phase is ACTIVE; and the frame loop
\* is inside process_frame only while the phase is not INACTIVE
C26_PhaseOrder ==
    [][/\ phase' # phase
             => \/ /\ phase = INACTIVE /\ phase' = CALIBRATION
                   /\ calibration'.active /\ calibration'.phase = EXTEND
                \/ /\ phase = CALIBRATION /\ phase' = COUNTDOWN
                   /\ ~calibration.active /\ calibration_log.returned
                \/ /\ phase = COUNTDOWN /\ phase' = ACTIVE
                   /\ now - countdown_start >= WORKOUT_COUNTDOWN_TIME
                \/ phase' = INACTIVE /\ Stopping
       /\ (\E s \in Sides : metrics'[s].rep_count > metrics[s].rep_count)
             => phase = ACTIVE
       /\ loop'.pc \in InFrame => phase' # INACTIVE]_vars

\* C27: the report is what the two sides' rep and error counts are at the
\* moment of stop(); a persisted session document has total_reps =
\* right_reps + left_reps with right_reps and left_reps those counts, and
\* total_errors the sum of the two error counts; and session_stopped is
\* emitted only after the report was taken and stop() was made
C27_ReportBeforeStop ==
    /\ stopper.pc \in {"persist", "emit", "done"} => stopper.summary = stopper.at_stop
    /\ \A i \in DOMAIN host.sessions :
          /\ host.sessions[i].total_reps
                = host.sessions[i].right_reps + host.sessions[i].left_reps
          /\ host.sessions[i].right_reps = stopper.at_stop["RIGHT"].total_reps
          /\ host.sessions[i].left_reps = stopper.at_stop["LEFT"].total_reps
          /\ host.sessions[i].total_errors
                = stopper.at_stop["RIGHT"].error_count + stopper.at_stop["LEFT"].error_count
    /\ host.session_stopped => stopper.pc = "done"

----------------------------------------------------------------------------
(* Claims about the stage machine, checked under SpecStages *)

\* the stage changes of the state machine
StageChanges ==
    {<<DOWN, MOVING_UP>>, <<DOWN, UP>>, <<MOVING_UP, UP>>, <<MOVING_UP, DOWN>>,
     <<UP, MOVING_DOWN>>, <<UP, DOWN>>, <<MOVING_DOWN, DOWN>>, <<MOVING_DOWN, UP>>}

\* C38: a side's stage is always UP, DOWN, MOVING_UP or MOVING_DOWN; a call
\* changes it only along one of the eight stage changes; UP is entered on a
\* frame with angle <= C - h and DOWN on a frame with angle >= E + h
C38_StageTransitions ==
    /\ [](\A s \in Sides : metrics[s].stage \in {UP, DOWN, MOVING_UP, MOVING_DOWN})
    /\ [][\A s \in Sides : StageChanged(s) =>
             /\ Called(s)
             /\ <<metrics[s].stage, metrics'[s].stage>> \in StageChanges
             /\ metrics'[s].stage = UP =>
                   last_call'[s].angle <= calibration.contracted_threshold - hysteresis_margin
             /\ metrics'[s].stage = DOWN =>
                   last_call'[s].angle >= calibration.extended_threshold + hysteresis_margin]_vars

\* the side went from DOWN to UP, was credited a rep on leaving UP for
\* MOVING_DOWN, and has now entered DOWN from MOVING_DOWN
C38_Witness ==
    /\ scenario.max_calls = MaxCallsStages
    /\ last_call["RIGHT"].before.stage = MOVING_DOWN
    /\ metrics["RIGHT"].stage = DOWN
    /\ metrics["RIGHT"].rep_count = 1
    /\ stage_changes["RIGHT"] = 3

----------------------------------------------------------------------------
(* Claims about the rep timing, checked under SpecTiming *)

\* the smallest rep_time recorded at a credit of side s
SmallestRepTime(s) ==
    CHOOSE t \in {credit_log[s][i].rep_time : i \in DOMAIN credit_log[s]} :
        \A i \in DOMAIN credit_log[s] : t <= credit_log[s][i].rep_time

\* C39: min_rep_time is 0 exactly while rep_count is 0; once a rep is credited
\* min_rep_duration <= min_rep_time <= rep_time, and min_rep_time is the
\* smallest rep_time recorded at a credit so far
C39_RepTiming ==
    \A s \in Sides :
       /\ metrics[s].rep_count = Len(credit_log[s])
       /\ metrics[s].min_rep_time = 0 <=> metrics[s].rep_count = 0
       /\ metrics[s].rep_count >= 1 =>
             /\ min_rep_duration <= metrics[s].min_rep_time
             /\ metrics[s].min_rep_time <= metrics[s].rep_time
             /\ metrics[s].min_rep_time = SmallestRepTime(s)
             /\ metrics[s].rep_time = credit_log[s][Len(credit_log[s])].rep_time

\* two reps were credited, the second the longer one
C39_Witness ==
    /\ scenario.max_calls = MaxCallsTiming
    /\ Len(credit_log["LEFT"]) = 2
    /\ credit_log["LEFT"][1].rep_time < credit_log["LEFT"][2].rep_time
    /\ metrics["LEFT"].min_rep_time = credit_log["LEFT"][1].rep_time
    /\ metrics["LEFT"].min_rep_time < metrics["LEFT"].rep_time

----------------------------------------------------------------------------
(* Claims about the completion of the calibration, checked under            *)
(* SpecCompletes                                                             *)

\* C40: a calibration in EXTEND reaches CONTRACT and a running calibration
\* finalizes, process_frame returning True and active being False; and a
\* process_frame call on a finalized calibration returns True and changes
\* nothing of the calibration data
C40_CalibrationCompletes ==
    /\ (calibration.active /\ calibration.phase = EXTEND)
          ~> (calibration.active /\ calibration.phase = CONTRACT)
    /\ calibration.active
          ~> (Finalized /\ calibration_log.returned /\ ~calibration.active)
    /\ [][(Finalized /\ now' # now)
             => (calibration_log'.returned /\ calibration' = calibration)]_vars

\* the calibration has finalized although MaxAdverse frames did not show both
\* sides and the timer of CONTRACT was last restarted ten hold times or more
\* after the start, and process_frame was called again afterwards
C40_Witness ==
    /\ Finalized
    /\ calibration_log.returned
    /\ calibration_log.adverse = MaxAdverse
    /\ \A s \in Sides : Len(calibration.extended_angles[s]) >= min_samples
    /\ \A s \in Sides : Len(calibration.contracted_angles[s]) >= min_samples
    /\ now > calibration.phase_start_time + hold_time + SlowFramePeriod
    /\ calibration.phase_start_time >= 2 * (min_samples \div 4) * hold_time

====
